---- MODULE Spec2Model ----
(***************************************************************************)
(* Model of the snippet context stack (ContextStackEngine over the scoped  *)
(* chrome.storage store), of the content script's send-transaction         *)
(* coordinator and of the page bridge that patches window.fetch.           *)
(*                                                                         *)
(* Strings are TLA+ strings; String.prototype.trim / includes / join are   *)
(* computed character by character.  chrome.storage.local is a FIFO queue  *)
(* of get/set requests answered one at a time; every await on it is a      *)
(* point where other handlers may run.  DOM CustomEvents are dispatched    *)
(* synchronously, so a dispatch and the listeners it runs are one step.    *)
(*                                                                         *)
(* Specifications: EngineSpec (the engine API, one call at a time),        *)
(* ConcurrentSpec (engine calls in flight together), ScenarioSpec (the     *)
(* default limits, snippets added one after the other), ScopeSpec (the     *)
(* page moves between conversations), TabsSpec (another tab writes the     *)
(* store), Spec and LiveSpec (the send pipeline on chatgpt.com), EventsSpec *)
(* (other scripts dispatch on the bridge channel), IncludeSpec (the        *)
(* sidebar's include toggles), CompileSpec (collect, reorder, send),       *)
(* SpliceSpec (the bridge's splice on its own), ScopedSendSpec (sends      *)
(* around a change of conversation), DomSpec and DomLiveSpec (the DOM path *)
(* of the sites without a network transaction, and manual injects).        *)
(***************************************************************************)
EXTENDS Integers, Sequences, FiniteSets, Bags, TLC

VARIABLES
    store,              \* chrome.storage.local: storage key -> persisted ContextStackState (or NoValue)
    storageQ,           \* requests issued to chrome.storage.local, not yet answered (FIFO)
    scope,              \* conversation scope derived from window.location (deriveConversationScope)
    nextId,             \* number of ids handed out by generateId (ids are fresh)
    result,             \* what the last finished engine operation returned to its caller
    usedUpdate,         \* history: updateSnippet has been called
    now,                \* Date.now()
    latestContextState, \* content script: the state last passed to setSidebarState
    includedIds,        \* SidebarPanel.includedIds
    activeStorageKey,   \* content script: let activeStorageKey
    sendTxCounter,      \* content script: let sendTxCounter
    activeSendTxId,     \* content script: let activeSendTxId (NoTx for null)
    pendingClearTimers, \* content script: Map txId -> handle returned by window.setTimeout
    timers,             \* browser: armed timeouts, handle -> [due, txId] (txId: what the callback closes over)
    timerSeq,           \* browser: last timeout handle handed out
    pending,            \* page bridge: let pending (NoPending for null)
    requestPayload,     \* page bridge: const payload of a patched fetch (Undef before JSON.parse)
    editor,             \* page: the element adapter.getEditorElement() returns, with its text
    domClearTimers,     \* browser: armed 300 ms timeouts of injectContextIntoEditorDOM
    lastInsert,         \* history: what the last adapter.insertText did (result, strategies, events)
    lastTrigger,        \* history: what the last injectContextIntoEditorDOM found and did
    fetches,            \* patched window.fetch calls that have not returned yet (a bag)
    network,            \* calls of originalFetch made so far, the requests that left the page (a bag)
    lastReport,         \* history: the last event the bridge sent to the content script
    sendResult          \* history: what the last beginSelectedContextSendTransaction returned, and
                        \* the scope key current when the last transaction was begun

engineVars == <<store, storageQ, scope, nextId, result, usedUpdate>>
viewVars == <<latestContextState, includedIds, activeStorageKey>>
txVars == <<sendTxCounter, activeSendTxId, pendingClearTimers, timers, timerSeq, pending,
            fetches, network, lastReport, sendResult>>
vars == <<store, storageQ, scope, nextId, result, usedUpdate, now, latestContextState,
          includedIds, activeStorageKey, sendTxCounter, activeSendTxId, pendingClearTimers, timers, timerSeq,
          pending, requestPayload, editor, domClearTimers, lastInsert, lastTrigger,
          fetches, network, lastReport, sendResult>>

(***************************************************************************)
(* Bounds of the model.                                                    *)
(***************************************************************************)
\* limits the engine is constructed with (new ContextStackEngine(limits))
LimitSnippets == 2
LimitChars == 8
\* ids generateId hands out in one run
MaxIds == 3

(***************************************************************************)
(* Strings.                                                                *)
(***************************************************************************)
WhiteSpace == {" ", "\t", "\n"}

RECURSIVE trimStart(_)
trimStart(s) ==
    IF Len(s) > 0 /\ SubSeq(s, 1, 1) \in WhiteSpace
    THEN trimStart(SubSeq(s, 2, Len(s)))
    ELSE s

RECURSIVE trimEnd(_)
trimEnd(s) ==
    IF Len(s) > 0 /\ SubSeq(s, Len(s), Len(s)) \in WhiteSpace
    THEN trimEnd(SubSeq(s, 1, Len(s) - 1))
    ELSE s

\* String.prototype.trim
trim(s) == trimEnd(trimStart(s))

\* String.prototype.includes
includes(s, m) ==
    \E i \in 1..(Len(s) - Len(m) + 1) : SubSeq(s, i, i + Len(m) - 1) = m

normalizeText(text) == trim(text)

RECURSIVE repeat(_, _)
\* String.prototype.repeat
repeat(s, count) ==
    IF count = 0 THEN ""
    ELSE LET half == repeat(s, count \div 2)
         IN  IF count % 2 = 0 THEN half \o half ELSE half \o half \o s

(***************************************************************************)
(* Sequences as JavaScript arrays (0-based indices in the arguments).      *)
(***************************************************************************)
RECURSIVE sumCharCount(_)
\* snippets.reduce((sum, item) => sum + item.charCount, 0)
sumCharCount(snippets) ==
    IF snippets = <<>> THEN 0
    ELSE Head(snippets).charCount + sumCharCount(Tail(snippets))

\* the start index Array.prototype.splice works with
spliceStart(len, start) ==
    IF start < 0 THEN (IF len + start < 0 THEN 0 ELSE len + start)
    ELSE (IF start > len THEN len ELSE start)

\* faulty variant: the first n elements are kept
sliceLast_keepsFirst(seq, n) ==
    IF Len(seq) <= n THEN seq ELSE SubSeq(seq, 1, n)

\* arr.slice(-n) for n > 0: the last n elements
sliceLast(seq, n) ==
    IF Len(seq) <= n THEN seq ELSE SubSeq(seq, Len(seq) - n + 1, Len(seq))

(***************************************************************************)
(* Scoped store (storageManager).                                          *)
(***************************************************************************)
NoValue == [none |-> TRUE]

Scopes == {"chatgpt:c1", "chatgpt:c2"}

\* a conversation page of claude.ai, a site without a network transaction
ClaudeScopes == {"claude:c1"}

\* the conversation pages a content script is loaded on
Pages == Scopes \cup ClaudeScopes

\* the escapes of encodeURIComponent for the reserved characters of scopes and paths
Escapes == [c \in {":", "/", "?", "=", "&", " ", "%"} |->
               CASE c = ":" -> "%3A" [] c = "/" -> "%2F" [] c = "?" -> "%3F"
                 [] c = "=" -> "%3D" [] c = "&" -> "%26" [] c = " " -> "%20"
                 [] c = "%" -> "%25"]

RECURSIVE encodeURIComponent(_)
encodeURIComponent(s) ==
    IF s = "" THEN ""
    ELSE LET c == SubSeq(s, 1, 1)
         IN  (IF c \in DOMAIN Escapes THEN Escapes[c] ELSE c)
                 \o encodeURIComponent(SubSeq(s, 2, Len(s)))

\* `${STORAGE_KEY_PREFIX}::${encodeURIComponent(...)}` for a conversation scope
storageKeyOf(conversationScope) ==
    "ucs_context_stack_v2::" \o encodeURIComponent(conversationScope)

\* the key of every scope, computed once
KeyOfScope == [s \in Pages |-> storageKeyOf(s)]

getActiveStorageKey == KeyOfScope[scope]

\* window.location.href of the conversation page whose scope is `chatgpt:${conversationId}`
\* or `claude:${id}`
hrefOf(conversationScope) ==
    IF SubSeq(conversationScope, 1, Len("chatgpt:")) = "chatgpt:"
    THEN "https://chatgpt.com/c/"
             \o SubSeq(conversationScope, Len("chatgpt:") + 1, Len(conversationScope))
    ELSE "https://claude.ai/chat/"
             \o SubSeq(conversationScope, Len("claude:") + 1, Len(conversationScope))

\* deriveConversationScope on a conversation page of chatgpt.com or of claude.ai
deriveConversationScope(href) ==
    IF SubSeq(href, 1, Len("https://chatgpt.com/")) = "https://chatgpt.com/"
    THEN "chatgpt:" \o SubSeq(href, Len("https://chatgpt.com/c/") + 1, Len(href))
    ELSE "claude:" \o SubSeq(href, Len("https://claude.ai/chat/") + 1, Len(href))

HrefOfScope == [s \in Pages |-> hrefOf(s)]

locationHref == HrefOfScope[scope]

\* adapter.name === "ChatGPT", for the adapter picked by the page's host
isChatGPTActive ==
    SubSeq(locationHref, 1, Len("https://chatgpt.com/")) = "https://chatgpt.com/"

StorageKeys == {KeyOfScope[s] : s \in Pages}

EMPTY_STATE == [snippets |-> <<>>, totalChars |-> 0, updatedAt |-> 0]

\* what getStore makes of the value chrome.storage.local.get delivered
getStore(data) ==
    IF data = NoValue THEN EMPTY_STATE
    ELSE [snippets |-> data.snippets, totalChars |-> data.totalChars, updatedAt |-> data.updatedAt]

(***************************************************************************)
(* Context stack engine: each operation as the function from the state it  *)
(* read to what it returns and whether it writes.                          *)
(***************************************************************************)
Outcome(write, ok, reason, state) ==
    [write |-> write, ok |-> ok, reason |-> reason, state |-> state]

addSnippet_noCharLimit(state, input, id, t, limits) ==
    LET text == normalizeText(input.text)
        snippet == [id |-> id, text |-> text, sourceUrl |-> input.sourceUrl,
                    timestamp |-> t, charCount |-> Len(text)]
        nextSnippets == sliceLast(Append(state.snippets, snippet), limits.maxSnippets)
    IN  Outcome(TRUE, TRUE, "",
                [snippets |-> nextSnippets, totalChars |-> sumCharCount(nextSnippets), updatedAt |-> t])

\* faulty variant: the duplicate check is left out
addSnippet_noDuplicateCheck(state, input, id, t, limits) ==
    LET text == normalizeText(input.text)
        snippet == [id |-> id, text |-> text, sourceUrl |-> input.sourceUrl,
                    timestamp |-> t, charCount |-> Len(text)]
        nextSnippets == sliceLast(Append(state.snippets, snippet), limits.maxSnippets)
        totalChars == sumCharCount(nextSnippets)
    IN  IF Len(text) < 3 THEN Outcome(FALSE, FALSE, "Selection too short", state)
        ELSE IF Len(text) > 10000 THEN Outcome(FALSE, FALSE, "Selection too large", state)
        ELSE IF totalChars > limits.maxTotalChars
        THEN Outcome(FALSE, FALSE, "Context stack char limit reached", state)
        ELSE Outcome(TRUE, TRUE, "",
                     [snippets |-> nextSnippets, totalChars |-> totalChars, updatedAt |-> t])

\* faulty variant: the candidate over the char limit is stored although the add fails
addSnippet_storesRejected(state, input, id, t, limits) ==
    LET text == normalizeText(input.text)
        isDuplicate == \E i \in 1..Len(state.snippets) : state.snippets[i].text = text
        snippet == [id |-> id, text |-> text, sourceUrl |-> input.sourceUrl,
                    timestamp |-> t, charCount |-> Len(text)]
        nextSnippets == sliceLast(Append(state.snippets, snippet), limits.maxSnippets)
        totalChars == sumCharCount(nextSnippets)
        nextState == [snippets |-> nextSnippets, totalChars |-> totalChars, updatedAt |-> t]
    IN  IF Len(text) < 3 THEN Outcome(FALSE, FALSE, "Selection too short", state)
        ELSE IF Len(text) > 10000 THEN Outcome(FALSE, FALSE, "Selection too large", state)
        ELSE IF isDuplicate THEN Outcome(FALSE, FALSE, "Duplicate snippet", state)
        ELSE IF totalChars > limits.maxTotalChars
        THEN Outcome(TRUE, FALSE, "Context stack char limit reached", nextState)
        ELSE Outcome(TRUE, TRUE, "", nextState)

\* faulty variant: the length checks are left out
addSnippet_noLengthCheck(state, input, id, t, limits) ==
    LET text == normalizeText(input.text)
        isDuplicate == \E i \in 1..Len(state.snippets) : state.snippets[i].text = text
        snippet == [id |-> id, text |-> text, sourceUrl |-> input.sourceUrl,
                    timestamp |-> t, charCount |-> Len(text)]
        nextSnippets == sliceLast(Append(state.snippets, snippet), limits.maxSnippets)
        totalChars == sumCharCount(nextSnippets)
    IN  IF isDuplicate THEN Outcome(FALSE, FALSE, "Duplicate snippet", state)
        ELSE IF totalChars > limits.maxTotalChars
        THEN Outcome(FALSE, FALSE, "Context stack char limit reached", state)
        ELSE Outcome(TRUE, TRUE, "",
                     [snippets |-> nextSnippets, totalChars |-> totalChars, updatedAt |-> t])

\* faulty variant: the duplicate check compares the text as given, before the trim
addSnippet_comparesRawText(state, input, id, t, limits) ==
    LET text == normalizeText(input.text)
        isDuplicate == \E i \in 1..Len(state.snippets) : state.snippets[i].text = input.text
        snippet == [id |-> id, text |-> text, sourceUrl |-> input.sourceUrl,
                    timestamp |-> t, charCount |-> Len(text)]
        nextSnippets == sliceLast(Append(state.snippets, snippet), limits.maxSnippets)
        totalChars == sumCharCount(nextSnippets)
    IN  IF Len(text) < 3 THEN Outcome(FALSE, FALSE, "Selection too short", state)
        ELSE IF Len(text) > 10000 THEN Outcome(FALSE, FALSE, "Selection too large", state)
        ELSE IF isDuplicate THEN Outcome(FALSE, FALSE, "Duplicate snippet", state)
        ELSE IF totalChars > limits.maxTotalChars
        THEN Outcome(FALSE, FALSE, "Context stack char limit reached", state)
        ELSE Outcome(TRUE, TRUE, "",
                     [snippets |-> nextSnippets, totalChars |-> totalChars, updatedAt |-> t])

addSnippet(state, input, id, t, limits) ==
    LET text == normalizeText(input.text)
        isDuplicate == \E i \in 1..Len(state.snippets) : state.snippets[i].text = text
        snippet == [id |-> id, text |-> text, sourceUrl |-> input.sourceUrl,
                    timestamp |-> t, charCount |-> Len(text)]
        nextSnippets == sliceLast(Append(state.snippets, snippet), limits.maxSnippets)
        totalChars == sumCharCount(nextSnippets)
    IN  IF Len(text) < 3 THEN Outcome(FALSE, FALSE, "Selection too short", state)
        ELSE IF Len(text) > 10000 THEN Outcome(FALSE, FALSE, "Selection too large", state)
        ELSE IF isDuplicate THEN Outcome(FALSE, FALSE, "Duplicate snippet", state)
        ELSE IF totalChars > limits.maxTotalChars
        THEN Outcome(FALSE, FALSE, "Context stack char limit reached", state)
        ELSE Outcome(TRUE, TRUE, "",
                     [snippets |-> nextSnippets, totalChars |-> totalChars, updatedAt |-> t])

removeSnippet_keepsTotal(state, id, t) ==
    LET Keep(snippet) == snippet.id # id
        snippets == SelectSeq(state.snippets, Keep)
    IN  Outcome(TRUE, TRUE, "",
                [snippets |-> snippets, totalChars |-> state.totalChars, updatedAt |-> t])

removeSnippet(state, id, t) ==
    LET Keep(snippet) == snippet.id # id
        snippets == SelectSeq(state.snippets, Keep)
    IN  Outcome(TRUE, TRUE, "",
                [snippets |-> snippets, totalChars |-> sumCharCount(snippets), updatedAt |-> t])

updateSnippet(state, id, nextText, t) ==
    LET text == normalizeText(nextText)
        snippets == [i \in 1..Len(state.snippets) |->
                        IF state.snippets[i].id # id THEN state.snippets[i]
                        ELSE [state.snippets[i] EXCEPT !.text = text,
                                                       !.charCount = Len(text),
                                                       !.timestamp = t]]
    IN  Outcome(TRUE, TRUE, "",
                [snippets |-> snippets, totalChars |-> sumCharCount(snippets), updatedAt |-> t])

\* faulty variant: the moved snippet also stays where it was
reorderSnippet_copies(state, startIndex, endIndex, t) ==
    LET len == Len(state.snippets)
        from == spliceStart(len, startIndex)
    IN  IF from >= len THEN Outcome(FALSE, TRUE, "", state)
        ELSE
            LET moved == state.snippets[from + 1]
                to == spliceStart(len, endIndex)
                snippets == SubSeq(state.snippets, 1, to) \o <<moved>>
                            \o SubSeq(state.snippets, to + 1, len)
            IN  Outcome(TRUE, TRUE, "",
                        [snippets |-> snippets, totalChars |-> sumCharCount(snippets),
                         updatedAt |-> t])

\* faulty variant: the extracted snippet is put back at the end, wherever it was to go
reorderSnippet_appends(state, startIndex, endIndex, t) ==
    LET len == Len(state.snippets)
        from == spliceStart(len, startIndex)
    IN  IF from >= len THEN Outcome(FALSE, TRUE, "", state)
        ELSE
            LET moved == state.snippets[from + 1]
                rest == SubSeq(state.snippets, 1, from) \o SubSeq(state.snippets, from + 2, len)
                snippets == rest \o <<moved>>
            IN  Outcome(TRUE, TRUE, "",
                        [snippets |-> snippets, totalChars |-> sumCharCount(snippets),
                         updatedAt |-> t])

reorderSnippet(state, startIndex, endIndex, t) ==
    LET len == Len(state.snippets)
        from == spliceStart(len, startIndex)
    IN  IF from >= len THEN Outcome(FALSE, TRUE, "", state)
        ELSE
            LET moved == state.snippets[from + 1]
                rest == SubSeq(state.snippets, 1, from) \o SubSeq(state.snippets, from + 2, len)
                to == spliceStart(len - 1, endIndex)
                snippets == SubSeq(rest, 1, to) \o <<moved>> \o SubSeq(rest, to + 1, len - 1)
            IN  Outcome(TRUE, TRUE, "",
                        [snippets |-> snippets, totalChars |-> sumCharCount(snippets),
                         updatedAt |-> t])

clear(t) ==
    Outcome(TRUE, TRUE, "", [snippets |-> <<>>, totalChars |-> 0, updatedAt |-> t])

(***************************************************************************)
(* Sidebar panel and the content script's view of the stack.               *)
(***************************************************************************)
\* the indices of the snippets of a state
Positions(state) == 0..(Len(state.snippets) - 1)

idsOf(snippets) == {snippets[i].id : i \in 1..Len(snippets)}

\* SidebarPanel.setState: ids gone from the state are dropped, every id of the state is added
setState(state) == idsOf(state.snippets)

\* SidebarPanel.getIncludedIds
getIncludedIds ==
    LET Keep(snippet) == snippet.id \in includedIds
    IN  SelectSeq(latestContextState.snippets, Keep)

\* what the caller of an engine operation does with the state it got back
ReturnToCaller(then, out) ==
    IF then = "setSidebarState" \/ (then = "setSidebarStateIfOk" /\ out.ok)
    THEN /\ latestContextState' = out.state
         /\ includedIds' = setState(out.state)
         /\ UNCHANGED activeStorageKey
    ELSE UNCHANGED viewVars

\* a write was applied: the handler of storageManager.onStoreChange passes a new value
\* of the key active at that moment to setSidebarState; the caller continues
\* chrome.storage.onChanged payload of one write
Changes(key, newValue) == [k \in {key} |-> [newValue |-> newValue]]

\* faulty variant: the listener is called for whatever key changed
handler_anyKey(changes, areaName) ==
    IF areaName # "local" THEN <<>>
    ELSE LET k == CHOOSE key \in DOMAIN changes : TRUE
         IN  IF changes[k].newValue # NoValue THEN <<changes[k].newValue>> ELSE <<>>

\* the handler onStoreChange registers: the arguments it calls the listener with
handler(changes, areaName) ==
    IF areaName # "local" THEN <<>>
    ELSE LET activeKey == getActiveStorageKey
         IN  IF activeKey \in DOMAIN changes /\ changes[activeKey].newValue # NoValue
             THEN <<changes[activeKey].newValue>>
             ELSE <<>>

onStoreChange(request) ==
    LET calls == handler(Changes(request.key, request.value), "local")
    IN  IF calls # <<>>
        THEN /\ latestContextState' = calls[1]
             /\ includedIds' = setState(calls[1])
             /\ UNCHANGED activeStorageKey
        ELSE ReturnToCaller(request.op.then, request.op.out)

(***************************************************************************)
(* Engine operations as asynchronous calls on chrome.storage.local.        *)
(***************************************************************************)
limits == [maxSnippets |-> LimitSnippets, maxTotalChars |-> LimitChars]

Op(kind, text, sourceUrl, id, startIndex, endIndex, then) ==
    [kind |-> kind, text |-> text, sourceUrl |-> sourceUrl, id |-> id,
     startIndex |-> startIndex, endIndex |-> endIndex, then |-> then,
     state |-> NoValue, out |-> NoValue]

Request(req, key, value, op) == [req |-> req, key |-> key, value |-> value, op |-> op]

\* getState(): the key is computed and chrome.storage.local.get is issued
IssueGet(op) ==
    storageQ' = Append(storageQ, Request("get", getActiveStorageKey, NoValue, op))

addSnippetCall(text, sourceUrl, then) ==
    /\ IssueGet(Op("add", text, sourceUrl, 0, 0, 0, then))
    /\ UNCHANGED <<store, scope, requestPayload, editor, domClearTimers, lastInsert, lastTrigger, nextId, result, usedUpdate, now>>
    /\ UNCHANGED viewVars
    /\ UNCHANGED txVars

removeSnippetCall(id, then) ==
    /\ IssueGet(Op("remove", "", "", id, 0, 0, then))
    /\ UNCHANGED <<store, scope, requestPayload, editor, domClearTimers, lastInsert, lastTrigger, nextId, result, usedUpdate, now>>
    /\ UNCHANGED viewVars
    /\ UNCHANGED txVars

updateSnippetCall(id, nextText, then) ==
    /\ IssueGet(Op("update", nextText, "", id, 0, 0, then))
    /\ usedUpdate' = TRUE
    /\ UNCHANGED <<store, scope, requestPayload, editor, domClearTimers, lastInsert, lastTrigger, nextId, result, now>>
    /\ UNCHANGED viewVars
    /\ UNCHANGED txVars

reorderSnippetCall(startIndex, endIndex, then) ==
    /\ IssueGet(Op("reorder", "", "", 0, startIndex, endIndex, then))
    /\ UNCHANGED <<store, scope, requestPayload, editor, domClearTimers, lastInsert, lastTrigger, nextId, result, usedUpdate, now>>
    /\ UNCHANGED viewVars
    /\ UNCHANGED txVars

\* clear() reads nothing: setStore is called at once, with the key of that moment
clearRequest(then) ==
    Request("set", getActiveStorageKey, clear(now).state,
            [Op("clear", "", "", 0, 0, 0, then) EXCEPT !.out = clear(now)])

IssueClear(then) == storageQ' = Append(storageQ, clearRequest(then))

clearCall(then) ==
    /\ IssueClear(then)
    /\ UNCHANGED <<store, scope, requestPayload, editor, domClearTimers, lastInsert, lastTrigger, nextId, result, usedUpdate, now>>
    /\ UNCHANGED viewVars
    /\ UNCHANGED txVars

\* the operation's code between its read and its write (or its early return)
engineStep(op, state) ==
    CASE op.kind = "add" ->
            addSnippet(state, [text |-> op.text, sourceUrl |-> op.sourceUrl], nextId + 1, now, limits)
      [] op.kind = "remove" -> removeSnippet(state, op.id, now)
      [] op.kind = "update" -> updateSnippet(state, op.id, op.text, now)
      [] op.kind = "reorder" -> reorderSnippet(state, op.startIndex, op.endIndex, now)
      [] op.kind = "getState" -> Outcome(FALSE, TRUE, "", state)

\* generateId() runs after the length and duplicate checks, before the char limit check
callsGenerateId(op, out) ==
    op.kind = "add" /\ (out.ok \/ out.reason = "Context stack char limit reached")

\* chrome.storage.local.get answers: the operation resumes after `await this.getState()`
StorageGetResponds ==
    /\ storageQ # <<>>
    /\ Head(storageQ).req = "get"
    /\ Head(storageQ).op.then # "insertText"
    /\ LET r == Head(storageQ)
           state == getStore(store[r.key])
           out == engineStep(r.op, state)
       IN  /\ callsGenerateId(r.op, out) => nextId < MaxIds
           /\ nextId' = IF callsGenerateId(r.op, out) THEN nextId + 1 ELSE nextId
           /\ IF out.write
              THEN /\ storageQ' = Append(Tail(storageQ),
                                         Request("set", getActiveStorageKey, out.state,
                                                 [r.op EXCEPT !.state = state, !.out = out]))
                   /\ UNCHANGED result
                   /\ UNCHANGED viewVars
              ELSE /\ storageQ' = Tail(storageQ)
                   /\ result' = [kind |-> r.op.kind, ok |-> out.ok, reason |-> out.reason,
                                 state |-> out.state]
                   /\ ReturnToCaller(r.op.then, out)
    /\ UNCHANGED <<store, scope, requestPayload, editor, domClearTimers, lastInsert, lastTrigger, usedUpdate, now>>
    /\ UNCHANGED txVars

\* faulty variant: a write is dropped when the stored value is no longer the one read
StorageSetResponds_firstWriteWins ==
    /\ storageQ # <<>>
    /\ Head(storageQ).req = "set"
    /\ LET r == Head(storageQ)
           stale == r.op.kind # "clear" /\ getStore(store[r.key]) # r.op.state
       IN  /\ store' = IF stale THEN store ELSE [store EXCEPT ![r.key] = r.value]
           /\ storageQ' = Tail(storageQ)
           /\ result' = [kind |-> r.op.kind, ok |-> r.op.out.ok, reason |-> r.op.out.reason,
                         state |-> r.op.out.state]
           /\ onStoreChange(r)
    /\ UNCHANGED <<scope, requestPayload, editor, domClearTimers, lastInsert, lastTrigger, nextId, usedUpdate, now>>
    /\ UNCHANGED txVars

\* chrome.storage.local.set answers: the value is stored and the operation returns
StorageSetResponds ==
    /\ storageQ # <<>>
    /\ Head(storageQ).req = "set"
    /\ LET r == Head(storageQ)
       IN  /\ store' = [store EXCEPT ![r.key] = r.value]
           /\ storageQ' = Tail(storageQ)
           /\ result' = [kind |-> r.op.kind, ok |-> r.op.out.ok, reason |-> r.op.out.reason,
                         state |-> r.op.out.state]
           /\ onStoreChange(r)
    /\ UNCHANGED <<scope, requestPayload, editor, domClearTimers, lastInsert, lastTrigger, nextId, usedUpdate, now>>
    /\ UNCHANGED txVars

(***************************************************************************)
(* Compiled context (formatCompiledContext).                               *)
(***************************************************************************)
CONTEXT_MARKER == "### SELECTED CONTEXT (User-Collected)"

RECURSIVE toString(_)
\* `${index + 1}`: a number in decimal
toString(n) ==
    IF n < 10 THEN SubSeq("0123456789", n + 1, n + 1)
    ELSE toString(n \div 10) \o SubSeq("0123456789", (n % 10) + 1, (n % 10) + 1)

RECURSIVE join(_, _)
\* Array.prototype.join
join(parts, sep) ==
    IF Len(parts) = 0 THEN ""
    ELSE IF Len(parts) = 1 THEN parts[1]
    ELSE parts[1] \o sep \o join(Tail(parts), sep)

\* faulty variant: the snippets are numbered from 0
formatCompiledContext_fromZero(snippets) ==
    LET body == join([index \in 1..Len(snippets) |->
                         "[Snippet " \o toString(index - 1) \o "]\n" \o snippets[index].text],
                     "\n\n")
    IN  join(<<CONTEXT_MARKER,
               "IMPORTANT: Do not let this context influence anything outside this specific message/prompt request.",
               "The following snippets were highlighted from earlier conversation:",
               "",
               body,
               "",
               "User Question:">>, "\n")

formatCompiledContext(snippets) ==
    LET body == join([index \in 1..Len(snippets) |->
                         "[Snippet " \o toString(index) \o "]\n" \o snippets[index].text],
                     "\n\n")
    IN  join(<<CONTEXT_MARKER,
               "IMPORTANT: Do not let this context influence anything outside this specific message/prompt request.",
               "The following snippets were highlighted from earlier conversation:",
               "",
               body,
               "",
               "User Question:">>, "\n")

(***************************************************************************)
(* JSON values of a request payload: a tag and a value.                    *)
(***************************************************************************)
JStr(s) == [t |-> "str", v |-> s]
JNum(n) == [t |-> "num", v |-> n]
JArr(items) == [t |-> "arr", v |-> items]
JObj(fields) == [t |-> "obj", v |-> fields]
Undef == [t |-> "undef", v |-> ""]

\* typeof x === "string", Array.isArray(x), x && typeof x === "object", !!x
isString(x) == x.t = "str"
isArray(x) == x.t = "arr"
isObject(x) == x.t \in {"obj", "arr"}
truthy(x) ==
    ~(\/ x.t = "undef"
      \/ (x.t = "str" /\ x.v = "")
      \/ (x.t = "num" /\ x.v = 0))

\* o.f and {...o, f: val}
get(o, f) == IF o.t = "obj" /\ f \in DOMAIN o.v THEN o.v[f] ELSE Undef
set(o, f, val) == JObj((f :> val) @@ o.v)

hasMarker(x) == isString(x) /\ includes(x.v, CONTEXT_MARKER)

\* faulty variant: the context is prepended whether or not the marker is there
stamp_always(x, context) == JStr(context \o "\n" \o x.v)

\* `${context}\n${text}` unless the text already holds the marker
stamp(x, context) == IF hasMarker(x) THEN x ELSE JStr(context \o "\n" \o x.v)

(***************************************************************************)
(* Page bridge: splicing the context into a payload.                       *)
(***************************************************************************)
NoRole == "(null)"

roleOf(message) ==
    IF isString(get(message, "role")) THEN get(message, "role").v
    ELSE IF /\ truthy(get(message, "author"))
            /\ isObject(get(message, "author"))
            /\ isString(get(get(message, "author"), "role"))
         THEN get(get(message, "author"), "role").v
         ELSE NoRole

partHasMarker(part) ==
    IF isString(part) THEN hasMarker(part)
    ELSE IF isObject(part) THEN hasMarker(get(part, "text"))
    ELSE FALSE

contentHasMarker(content) ==
    IF isString(content) THEN hasMarker(content)
    ELSE IF isArray(content) THEN \E i \in 1..Len(content.v) : partHasMarker(content.v[i])
    ELSE IF isObject(content) THEN hasMarker(get(content, "text"))
    ELSE FALSE

RECURSIVE prependToFirstPart(_, _, _)
\* the loop over parts: the first string part, or part with a string text, gets the context
prependToFirstPart(parts, context, i) ==
    IF i > Len(parts) THEN [next |-> parts, changed |-> FALSE]
    ELSE IF isString(parts[i])
    THEN [next |-> [parts EXCEPT ![i] = JStr(context \o "\n" \o parts[i].v)], changed |-> TRUE]
    ELSE IF isObject(parts[i]) /\ isString(get(parts[i], "text"))
    THEN [next |-> [parts EXCEPT ![i] =
                       set(parts[i], "text", JStr(context \o "\n" \o get(parts[i], "text").v))],
          changed |-> TRUE]
    ELSE prependToFirstPart(parts, context, i + 1)

prependContextToContent(content, context) ==
    IF isString(content)
    THEN [next |-> stamp(content, context), changed |-> TRUE]
    ELSE IF isArray(content)
    THEN IF contentHasMarker(content) THEN [next |-> content, changed |-> TRUE]
         ELSE LET r == prependToFirstPart(content.v, context, 1)
              IN  IF r.changed THEN [next |-> JArr(r.next), changed |-> TRUE]
                  ELSE [next |-> JArr(<<JObj([type |-> JStr("text"), text |-> JStr(context)])>>
                                      \o content.v),
                        changed |-> TRUE]
    ELSE IF isObject(content) /\ isArray(get(content, "parts"))
    THEN IF contentHasMarker(get(content, "parts")) THEN [next |-> content, changed |-> TRUE]
         ELSE LET r == prependToFirstPart(get(content, "parts").v, context, 1)
              IN  IF r.changed
                  THEN [next |-> set(content, "parts", JArr(r.next)), changed |-> TRUE]
                  ELSE [next |-> set(content, "parts",
                                     JArr(<<JStr(context)>> \o get(content, "parts").v)),
                        changed |-> TRUE]
    ELSE IF isObject(content) /\ isString(get(content, "text"))
    THEN [next |-> set(content, "text", stamp(get(content, "text"), context)), changed |-> TRUE]
    ELSE [next |-> content, changed |-> FALSE]

buildSyntheticHiddenEntry(template, context) ==
    LET n1 == IF isString(get(template, "id"))
              THEN set(template, "id", JStr("ucs-" \o toString(now)))
              ELSE template
        n2 == IF truthy(get(n1, "author")) /\ isObject(get(n1, "author"))
              THEN set(n1, "author", set(get(n1, "author"), "role", JStr("developer")))
              ELSE n1
        n3 == set(n2, "role", JStr("developer"))
        n4 == IF isString(get(n3, "text")) THEN set(n3, "text", JStr(context)) ELSE n3
        contentResult == prependContextToContent(get(n4, "content"), context)
    IN  IF contentResult.changed THEN set(n4, "content", contentResult.next)
        ELSE set(n4, "content", JStr(context))

\* message.role read directly (the loops over payload.input) or through roleOf
entryRole(entry, viaRoleOf) ==
    IF viaRoleOf THEN roleOf(entry)
    ELSE IF isString(get(entry, "role")) THEN get(entry, "role").v
    ELSE NoRole

RECURSIVE injectIntoEntries(_, _, _, _, _)
\* for (let i = items.length - 1; i >= 0; i -= 1): the last entry with one of the roles
\* whose content or text takes the context
injectIntoEntries(items, context, i, roles, viaRoleOf) ==
    IF i < 1 THEN [items |-> items, done |-> FALSE]
    ELSE IF ~isObject(items[i]) \/ entryRole(items[i], viaRoleOf) \notin roles
    THEN injectIntoEntries(items, context, i - 1, roles, viaRoleOf)
    ELSE LET contentResult == prependContextToContent(get(items[i], "content"), context)
         IN  IF contentResult.changed
             THEN [items |-> [items EXCEPT ![i] = set(items[i], "content", contentResult.next)],
                   done |-> TRUE]
             ELSE IF isString(get(items[i], "text"))
             THEN [items |-> [items EXCEPT ![i] =
                                 set(items[i], "text", stamp(get(items[i], "text"), context))],
                   done |-> TRUE]
             ELSE injectIntoEntries(items, context, i - 1, roles, viaRoleOf)

\* items.find(...): the first entry the predicate picks, as a set of at most one index
firstObject(items) ==
    {i \in 1..Len(items) : isObject(items[i]) /\ \A j \in 1..(i - 1) : ~isObject(items[j])}
firstUser(items) ==
    {i \in 1..Len(items) :
        /\ isObject(items[i]) /\ roleOf(items[i]) = "user"
        /\ \A j \in 1..(i - 1) : ~(isObject(items[j]) /\ roleOf(items[j]) = "user")}

Injected(payload, injected) == [payload |-> payload, injected |-> injected]

injectHiddenIntoMessages(payload, context) ==
    IF ~isArray(get(payload, "messages")) THEN Injected(payload, FALSE)
    ELSE
        LET messages == get(payload, "messages").v
            r == injectIntoEntries(messages, context, Len(messages), {"system", "developer"}, TRUE)
            template == IF firstUser(messages) # {} THEN firstUser(messages)
                        ELSE firstObject(messages)
        IN  IF r.done THEN Injected(set(payload, "messages", JArr(r.items)), TRUE)
            ELSE IF template # {}
            THEN LET synthetic ==
                        buildSyntheticHiddenEntry(messages[CHOOSE i \in template : TRUE], context)
                 IN  Injected(set(payload, "messages", JArr(<<synthetic>> \o messages)), TRUE)
            ELSE Injected(payload, FALSE)

injectHiddenContextIntoPayload(payload, context) ==
    IF isString(get(payload, "instructions"))
    THEN Injected(set(payload, "instructions", stamp(get(payload, "instructions"), context)), TRUE)
    ELSE IF ~truthy(get(payload, "instructions"))
    THEN Injected(set(payload, "instructions", JStr(context)), TRUE)
    ELSE IF isArray(get(payload, "input"))
    THEN LET items == get(payload, "input").v
             r == injectIntoEntries(items, context, Len(items), {"system", "developer"}, FALSE)
         IN  IF r.done THEN Injected(set(payload, "input", JArr(r.items)), TRUE)
             ELSE IF firstObject(items) # {}
             THEN LET synthetic ==
                         buildSyntheticHiddenEntry(items[CHOOSE i \in firstObject(items) : TRUE],
                                                   context)
                  IN  Injected(set(payload, "input", JArr(<<synthetic>> \o items)), TRUE)
             ELSE injectHiddenIntoMessages(payload, context)
    ELSE injectHiddenIntoMessages(payload, context)

injectVisibleIntoMessages(payload, context) ==
    IF ~isArray(get(payload, "messages")) THEN Injected(payload, FALSE)
    ELSE LET messages == get(payload, "messages").v
             r == injectIntoEntries(messages, context, Len(messages), {"user"}, TRUE)
         IN  IF r.done THEN Injected(set(payload, "messages", JArr(r.items)), TRUE)
             ELSE Injected(payload, FALSE)

injectVisibleFallbackIntoPayload(payload, context) ==
    IF isString(get(payload, "prompt"))
    THEN Injected(set(payload, "prompt", stamp(get(payload, "prompt"), context)), TRUE)
    ELSE IF isString(get(payload, "input"))
    THEN Injected(set(payload, "input", stamp(get(payload, "input"), context)), TRUE)
    ELSE IF isArray(get(payload, "input"))
    THEN LET items == get(payload, "input").v
             r == injectIntoEntries(items, context, Len(items), {"user"}, FALSE)
         IN  IF r.done THEN Injected(set(payload, "input", JArr(r.items)), TRUE)
             ELSE injectVisibleIntoMessages(payload, context)
    ELSE injectVisibleIntoMessages(payload, context)

payloadLooksLikePromptSend(payload) ==
    \/ isArray(get(payload, "messages"))
    \/ isString(get(payload, "prompt"))
    \/ isString(get(payload, "input"))
    \/ isArray(get(payload, "input"))

(***************************************************************************)
(* Send-transaction coordinator (content script) and page bridge.  Both    *)
(* listen to PAGE_PATCH_EVENT on document; dispatchEvent is synchronous,   *)
(* so the operators below thread one record w, the state of both sides,    *)
(* through a dispatch and everything the listeners do.                     *)
(***************************************************************************)
PAGE_PATCH_SOURCE == "ucs-page-bridge"
CONTEXT_TTL_MS == 12000
FALLBACK_CLEAR_MS == 5000

NoTx == 0
Undefined == 0 - 1
NoPending == [none |-> TRUE]
NoReport == [flip |-> FALSE, type |-> "", txId |-> Undefined, ok |-> FALSE, active |-> NoTx]

Without(m, k) == [y \in DOMAIN m \ {k} |-> m[y]]

World ==
    [counter |-> sendTxCounter, active |-> activeSendTxId, map |-> pendingClearTimers,
     timers |-> timers, timerSeq |-> timerSeq, pending |-> pending, report |-> lastReport,
     clears |-> 0]

Detail(direction, type, context, txId, ok, mode) ==
    [source |-> PAGE_PATCH_SOURCE, direction |-> direction, type |-> type,
     context |-> context, txId |-> txId, ok |-> ok, mode |-> mode]

\* window.setTimeout(callback closing over txId, delay) and window.clearTimeout(handle)
setTimeout(w, txId, delay) ==
    [w EXCEPT !.timerSeq = w.timerSeq + 1,
              !.timers = ((w.timerSeq + 1) :> [due |-> now + delay, txId |-> txId]) @@ w.timers]
clearTimeout(w, handle) == [w EXCEPT !.timers = Without(w.timers, handle)]

\* faulty variant: the timeouts are forgotten, not cancelled
resolveSendTransaction_noCancel(w, txId) ==
    IF txId # Undefined
    THEN [w EXCEPT !.active = IF w.active = txId THEN NoTx ELSE w.active,
                   !.map = Without(w.map, txId)]
    ELSE [w EXCEPT !.active = NoTx, !.map = <<>>]

resolveSendTransaction(w, txId) ==
    IF txId # Undefined
    THEN LET w1 == IF w.active = txId THEN [w EXCEPT !.active = NoTx] ELSE w
         IN  IF txId \in DOMAIN w1.map
             THEN [clearTimeout(w1, w1.map[txId]) EXCEPT !.map = Without(w1.map, txId)]
             ELSE w1
    ELSE [w EXCEPT !.active = NoTx,
                   !.map = <<>>,
                   !.timers = [h \in DOMAIN w.timers \ {w.map[k] : k \in DOMAIN w.map}
                                  |-> w.timers[h]]]

RECURSIVE dispatchEvent(_, _)

\* bridge -> content script; the report is also recorded with the transaction active then
sendToContent(w, type, txId, ok, mode) ==
    dispatchEvent([w EXCEPT !.report = [flip |-> ~w.report.flip, type |-> type, txId |-> txId,
                                        ok |-> ok, active |-> w.active]],
                  Detail("to-content", type, "", txId, ok, mode))

\* faulty variant: the slot keeps its context
clearPending_keeps(w, eventType, txIdOverride) == w

clearPending(w, eventType, txIdOverride) ==
    LET txId == IF txIdOverride # Undefined THEN txIdOverride
                ELSE IF w.pending # NoPending THEN w.pending.txId
                ELSE Undefined
        w1 == [w EXCEPT !.pending = NoPending]
    IN  IF eventType # "" /\ txId # Undefined
        THEN sendToContent(w1, eventType, txId, FALSE, "")
        ELSE w1

\* faulty variant: the slot is handed out whatever its age
getLivePending_ignoresTtl(w) ==
    IF w.pending = NoPending THEN [w |-> w, live |-> NoPending]
    ELSE [w |-> w, live |-> w.pending]

getLivePending(w) ==
    IF w.pending = NoPending THEN [w |-> w, live |-> NoPending]
    ELSE IF now <= w.pending.expiresAt THEN [w |-> w, live |-> w.pending]
    ELSE [w |-> clearPending(w, "context-expired", w.pending.txId), live |-> NoPending]

\* faulty variant: clear-context is not acted on
bridgeListener_ignoresClear(w, detail) ==
    IF detail.source = PAGE_PATCH_SOURCE /\ detail.direction = "to-page"
       /\ detail.type = "set-context"
    THEN [w EXCEPT !.pending = [context |-> detail.context, txId |-> detail.txId,
                                expiresAt |-> now + CONTEXT_TTL_MS]]
    ELSE w

\* faulty variant: the source tag is not looked at
bridgeListener_anySource(w, detail) ==
    IF detail.direction # "to-page" THEN w
    ELSE IF detail.type = "set-context"
    THEN [w EXCEPT !.pending =
             [context |-> detail.context,
              txId |-> IF detail.txId # Undefined THEN detail.txId ELSE 0,
              expiresAt |-> now + CONTEXT_TTL_MS]]
    ELSE IF detail.type = "clear-context" THEN clearPending(w, "", Undefined)
    ELSE w

\* the bridge's PAGE_PATCH_EVENT listener
bridgeListener(w, detail) ==
    IF detail.source # PAGE_PATCH_SOURCE \/ detail.direction # "to-page" THEN w
    ELSE IF detail.type = "set-context"
    THEN [w EXCEPT !.pending =
             [context |-> detail.context,
              txId |-> IF detail.txId # Undefined THEN detail.txId ELSE 0,
              expiresAt |-> now + CONTEXT_TTL_MS]]
    ELSE IF detail.type = "clear-context" THEN clearPending(w, "", Undefined)
    ELSE w

dispatchPagePatchEvent(w, type, context, txId) ==
    dispatchEvent(w, Detail("to-page", type, context, txId, FALSE, ""))

\* faulty variant: the bridge is not told to drop its slot
clearContextAfterSend_keepsSlot(w) ==
    LET w1 == resolveSendTransaction(w, Undefined)
    IN  [w1 EXCEPT !.clears = w1.clears + 1]

\* contextEngine.clear() is called; its storage write is issued when the step commits
clearContextAfterSend(w) ==
    LET w1 == resolveSendTransaction(w, Undefined)
        w2 == dispatchPagePatchEvent(w1, "clear-context", "", Undefined)
    IN  [w2 EXCEPT !.clears = w2.clears + 1]

\* faulty variant: a report is taken whatever its txId
contentListener_anyTxId(w, detail) ==
    IF detail.source # PAGE_PATCH_SOURCE \/ detail.direction # "to-content" THEN w
    ELSE IF detail.type = "prompt-request-finished"
    THEN IF w.active = NoTx THEN w
         ELSE clearContextAfterSend(resolveSendTransaction(w, w.active))
    ELSE IF detail.type = "context-expired" /\ detail.txId # Undefined
    THEN resolveSendTransaction(w, detail.txId)
    ELSE w

\* the content script's PAGE_PATCH_EVENT listener
contentListener(w, detail) ==
    IF detail.source # PAGE_PATCH_SOURCE \/ detail.direction # "to-content" THEN w
    ELSE IF detail.type = "prompt-request-finished"
    THEN IF w.active = NoTx THEN w
         ELSE IF detail.txId # Undefined /\ w.active # detail.txId THEN w
         ELSE clearContextAfterSend(resolveSendTransaction(w, w.active))
    ELSE IF detail.type = "context-expired" /\ detail.txId # Undefined
    THEN resolveSendTransaction(w, detail.txId)
    ELSE w

\* document.dispatchEvent: every listener runs, each keeps the events of its direction
dispatchEvent(w, detail) == contentListener(bridgeListener(w, detail), detail)

scheduleFallbackClear(w, txId) ==
    LET w1 == setTimeout(w, txId, FALLBACK_CLEAR_MS)
    IN  [w1 EXCEPT !.map = (txId :> w1.timerSeq) @@ w1.map]

\* faulty variant: no check for a transaction in flight
beginSendTransaction_always(w, context) ==
    LET txId == w.counter + 1
        w1 == [w EXCEPT !.counter = txId, !.active = txId]
        w2 == dispatchPagePatchEvent(w1, "set-context", context, txId)
    IN  [w |-> scheduleFallbackClear(w2, txId), returned |-> txId]

\* faulty variant: the counter is read, not advanced
beginSendTransaction_reusesTxId(w, context) ==
    IF w.active # NoTx THEN [w |-> w, returned |-> w.active]
    ELSE LET txId == IF w.counter = 0 THEN 1 ELSE w.counter
             w1 == [w EXCEPT !.counter = txId, !.active = txId]
             w2 == dispatchPagePatchEvent(w1, "set-context", context, txId)
         IN  [w |-> scheduleFallbackClear(w2, txId), returned |-> txId]

beginSendTransaction(w, context) ==
    IF w.active # NoTx THEN [w |-> w, returned |-> w.active]
    ELSE LET txId == w.counter + 1
             w1 == [w EXCEPT !.counter = txId, !.active = txId]
             w2 == dispatchPagePatchEvent(w1, "set-context", context, txId)
         IN  [w |-> scheduleFallbackClear(w2, txId), returned |-> txId]

getCompiledSelectedContext ==
    IF Len(getIncludedIds) = 0 THEN "" ELSE formatCompiledContext(getIncludedIds)

(***************************************************************************)
(* Initial state: nothing persisted, the content script just loaded.       *)
(***************************************************************************)
NoResult == [kind |-> "none", ok |-> TRUE, reason |-> "", state |-> EMPTY_STATE]

\* what adapter.getEditorElement() returns (here null): the kind of element, its text
\* (value or textContent) and the selection in it
NoElement == [kind |-> "none", text |-> "", start |-> 0, end |-> 0]

\* no adapter.insertText has run yet
NoInsert == [returned |-> FALSE, tried |-> <<>>, events |-> <<>>]

\* no send trigger has run injectContextIntoEditorDOM yet
NoTrigger == [returned |-> FALSE, armed |-> FALSE, marked |-> FALSE]

\* the content script and the page bridge right after they were loaded on a page
Loaded(page, element) ==
    /\ store = [k \in StorageKeys |-> NoValue]
    /\ storageQ = <<>>
    /\ scope = page
    /\ editor = element
    /\ domClearTimers = 0
    /\ lastInsert = NoInsert
    /\ lastTrigger = NoTrigger
    /\ nextId = 0
    /\ result = NoResult
    /\ usedUpdate = FALSE
    /\ now = 0
    /\ latestContextState = EMPTY_STATE
    /\ includedIds = {}
    /\ activeStorageKey = getActiveStorageKey
    /\ sendTxCounter = 0
    /\ activeSendTxId = NoTx
    /\ pendingClearTimers = <<>>
    /\ timers = <<>>
    /\ timerSeq = 0
    /\ pending = NoPending
    /\ requestPayload = Undef
    /\ fetches = EmptyBag
    /\ network = EmptyBag
    /\ lastReport = NoReport
    /\ sendResult = [returned |-> NoTx, reused |-> FALSE, key |-> ""]

\* on chatgpt.com sends go through the network transaction; the editor is not touched
Init == Loaded("chatgpt:c1", NoElement)

(***************************************************************************)
(* The engine driven through its API, operations interleaving at their     *)
(* storage reads and writes.                                               *)
(***************************************************************************)
\* selections of 10000 and of 10001 characters between white space
LargestText == " " \o repeat("x", 10000) \o "\n"
TooLargeText == " " \o repeat("x", 10001) \o "\n"

EngineTexts == {"ab", "abc", " abc ", "wxyz", "hello", LargestText, TooLargeText}
UpdateTexts == {"hello"}
Urls == {"https://chatgpt.com/c/c1", "https://example.org/page"}
Ids == 1..MaxIds
\* indices given to reorderSnippet: positions, the length, and negative numbers within and
\* beyond the length
Indices == {0 - (LimitSnippets + 1)} \cup ((0 - 1)..LimitSnippets)

\* the caller awaits each operation before it calls the next
Idle == storageQ = <<>>

EngineNext ==
    \/ \E text \in EngineTexts, url \in Urls : Idle /\ addSnippetCall(text, url, "none")
    \/ \E id \in Ids : Idle /\ removeSnippetCall(id, "none")
    \/ \E id \in Ids, text \in UpdateTexts : Idle /\ updateSnippetCall(id, text, "none")
    \/ \E i \in Indices, j \in Indices : Idle /\ reorderSnippetCall(i, j, "none")
    \/ Idle /\ clearCall("none")
    \/ StorageGetResponds
    \/ StorageSetResponds

EngineSpec == Init /\ [][EngineNext]_vars

(***************************************************************************)
(* The engine called without waiting for the call before: up to            *)
(* MaxInFlight operations are between their call and their return.  The    *)
(* callers are those of the content script: add, remove, reorder, clear.   *)
(***************************************************************************)
MaxInFlight == 2
\* ids generateId hands out in one run of concurrent calls
ConcurrentMaxIds == 2

ConcurrentTexts == {"abc", "wxyz"}

InFlight == Len(storageQ)

MayCall == InFlight < MaxInFlight

WithinConcurrentBounds == nextId' <= ConcurrentMaxIds

ConcurrentNext ==
    \/ \E text \in ConcurrentTexts :
          MayCall /\ addSnippetCall(text, "https://chatgpt.com/c/c1", "none")
    \/ \E id \in 1..ConcurrentMaxIds : MayCall /\ removeSnippetCall(id, "none")
    \/ MayCall /\ reorderSnippetCall(0, 1, "none")
    \/ MayCall /\ clearCall("none")
    \/ StorageGetResponds /\ WithinConcurrentBounds
    \/ StorageSetResponds

ConcurrentSpec == Init /\ [][ConcurrentNext]_vars

(***************************************************************************)
(* The engine with its default limits, one caller adding snippets of one   *)
(* length one after the other, each add awaited before the next; the clock *)
(* advances by one between two adds.                                       *)
(***************************************************************************)
DEFAULT_STORAGE_LIMITS == [maxSnippets |-> 75, maxTotalChars |-> 30000]

\* number of adds of the scenario
ScenarioAdds == 76

\* lengths of the snippets of a scenario
ScenarioLengths == {1, 3}

Alphabet ==
    "abcdefghijklmnopqrstuvwxyzABCDEFGHIJKLMNOPQRSTUVWXYZ0123456789!#$%&()*+,-./:;<=>?@[]^_{|}~"

\* the k-th text of a scenario: texts differ in their first character
ScenarioText(k, n) == SubSeq(Alphabet, k, k) \o repeat(".", n - 1)

\* every snippet of a scenario has the length of the one before
SameLengthAsBefore(n) ==
    \/ result.kind = "none"
    \/ /\ result.kind = "add"
       /\ IF result.ok
          THEN n = result.state.snippets[Len(result.state.snippets)].charCount
          ELSE n < 3

\* await contextEngine.addSnippet({ text, sourceUrl }) with nothing else running
ScenarioAdd(n) ==
    /\ now < ScenarioAdds
    /\ SameLengthAsBefore(n)
    /\ LET key == getActiveStorageKey
           input == [text |-> ScenarioText(now + 1, n), sourceUrl |-> "https://chatgpt.com/c/c1"]
           out == addSnippet(getStore(store[key]), input, nextId + 1, now, DEFAULT_STORAGE_LIMITS)
       IN  /\ store' = IF out.write THEN [store EXCEPT ![key] = out.state] ELSE store
           /\ nextId' = IF callsGenerateId([kind |-> "add"], out) THEN nextId + 1 ELSE nextId
           /\ result' = [kind |-> "add", ok |-> out.ok, reason |-> out.reason,
                         state |-> out.state]
    /\ now' = now + 1
    /\ UNCHANGED <<storageQ, scope, requestPayload, editor, domClearTimers, lastInsert, lastTrigger, usedUpdate>>
    /\ UNCHANGED viewVars
    /\ UNCHANGED txVars

ScenarioNext == \E n \in ScenarioLengths : ScenarioAdd(n)

ScenarioSpec == Init /\ [][ScenarioNext]_vars

(***************************************************************************)
(* The send pipeline on chatgpt.com: the user collects snippets and sends, *)
(* the page calls the patched window.fetch, time passes, timeouts fire.    *)
(***************************************************************************)
MaxTx == 2
MaxCalls == 2
MaxSelections == 2
MaxNow == 12001

SelectionTexts == {"ab", " abc "}
ClockSteps == {FALLBACK_CLEAR_MS, CONTEXT_TTL_MS - FALLBACK_CLEAR_MS + 1}

Body(kind, json) == [kind |-> kind, json |-> json]

\* a conversation request carrying the user's message
UserMessage ==
    JObj([action |-> JStr("next"),
          messages |-> JArr(<<JObj([id |-> JStr("m1"),
                                    author |-> JObj([role |-> JStr("user")]),
                                    content |-> JObj([content_type |-> JStr("text"),
                                                      parts |-> JArr(<<JStr("hi")>>)])])>>)])
\* a prompt-like request without a user entry: only the hidden path applies
SystemOnly ==
    JObj([messages |-> JArr(<<JObj([role |-> JStr("system"), content |-> JStr("be brief")])>>)])
\* a prompt-like request neither path can patch
Unpatchable == JObj([messages |-> JArr(<<>>), instructions |-> JNum(1)])
\* a request to a prompt endpoint that carries no prompt
Prepare == JObj([conversation_id |-> JStr("c1")])

Bodies ==
    {Body("json", UserMessage), Body("json", SystemOnly), Body("json", Unpatchable),
     Body("json", Prepare), Body("none", Undef)}

RECURSIVE carries(_, _)
\* JSON.stringify(payload) holds the text
carries(x, text) ==
    IF isString(x) THEN includes(x.v, text)
    ELSE IF isArray(x) THEN \E i \in 1..Len(x.v) : carries(x.v[i], text)
    ELSE IF x.t = "obj" THEN \E f \in DOMAIN x.v : carries(x.v[f], text)
    ELSE FALSE

Delivered(txId) == \E call \in BagToSet(network) : call.context = txId

RECURSIVE issueClears(_, _)
issueClears(queue, n) ==
    IF n = 0 THEN queue ELSE issueClears(Append(queue, clearRequest("setSidebarState")), n - 1)

\* the step's effect on both sides of the bridge
Commit(w) ==
    /\ sendTxCounter' = w.counter
    /\ activeSendTxId' = w.active
    /\ pendingClearTimers' = w.map
    /\ timers' = w.timers
    /\ timerSeq' = w.timerSeq
    /\ pending' = w.pending
    /\ lastReport' = w.report
    /\ storageQ' = issueClears(storageQ, w.clears)

\* the user picks a selection and asks to add it (the user acts between engine calls)
addSelectionToContext(text) ==
    /\ Idle
    /\ nextId < MaxSelections
    /\ IF Len(trim(text)) < 3
       THEN UNCHANGED vars
       ELSE addSnippetCall(trim(text), locationHref, "setSidebarStateIfOk")

\* faulty variant: the send action compiles the whole stack, included or not
beginSelectedContextSendTransaction_wholeStack ==
    /\ Idle
    /\ activeSendTxId = NoTx => (sendTxCounter < MaxTx /\ now + FALLBACK_CLEAR_MS <= MaxNow)
    /\ LET r == beginSendTransaction(World, formatCompiledContext(latestContextState.snippets))
       IN  /\ Commit(r.w)
           /\ sendResult' = [returned |-> r.returned, reused |-> activeSendTxId # NoTx,
                                  key |-> IF activeSendTxId # NoTx THEN sendResult.key
                                          ELSE getActiveStorageKey]
    /\ UNCHANGED <<store, scope, requestPayload, editor, domClearTimers, lastInsert, lastTrigger, nextId, result, usedUpdate, now, fetches, network>>
    /\ UNCHANGED viewVars

\* click on the send button, submit of the composer, or Enter in the editor (between
\* engine calls); a new transaction is begun only while its timeout can still come due
beginSelectedContextSendTransaction ==
    /\ Idle
    /\ activeSendTxId = NoTx => (sendTxCounter < MaxTx /\ now + FALLBACK_CLEAR_MS <= MaxNow)
    /\ IF Len(getIncludedIds) = 0 \/ getCompiledSelectedContext = ""
       THEN /\ sendResult' = [returned |-> NoTx, reused |-> FALSE, key |-> sendResult.key]
            /\ UNCHANGED <<sendTxCounter, activeSendTxId, pendingClearTimers, timers, timerSeq,
                           pending, lastReport, storageQ>>
       ELSE LET r == beginSendTransaction(World, getCompiledSelectedContext)
            IN  /\ Commit(r.w)
                /\ sendResult' = [returned |-> r.returned, reused |-> activeSendTxId # NoTx,
                                  key |-> IF activeSendTxId # NoTx THEN sendResult.key
                                          ELSE getActiveStorageKey]
    /\ UNCHANGED <<store, scope, requestPayload, editor, domClearTimers, lastInsert, lastTrigger, nextId, result, usedUpdate, now, fetches, network>>
    /\ UNCHANGED viewVars

\* the callback armed by scheduleFallbackClear runs; a timeout may run late, never early
TimerFires(h) ==
    /\ h \in DOMAIN timers
    /\ now >= timers[h].due
    /\ LET w0 == [World EXCEPT !.timers = Without(timers, h)]
           w1 == resolveSendTransaction(w0, timers[h].txId)
       IN  Commit(clearContextAfterSend(w1))
    /\ UNCHANGED <<store, scope, requestPayload, editor, domClearTimers, lastInsert, lastTrigger, nextId, result, usedUpdate, now, fetches, network, sendResult>>
    /\ UNCHANGED viewVars

Tick(d) ==
    /\ now + d <= MaxNow
    /\ now' = now + d
    /\ UNCHANGED <<store, storageQ, scope, requestPayload, editor, domClearTimers, lastInsert, lastTrigger, nextId, result, usedUpdate>>
    /\ UNCHANGED viewVars
    /\ UNCHANGED txVars

Call(patched, context) == [patched |-> patched, context |-> context]
Fetch(pc, promptRequest, livePending, txId) ==
    [pc |-> pc, promptRequest |-> promptRequest, livePending |-> livePending, txId |-> txId]

\* the page POSTs to a prompt endpoint: the patched fetch runs up to its call of
\* originalFetch (reading the body is the only await before it and touches no state)
PageFetch(body) ==
    /\ Idle
    /\ BagCardinality(network) < MaxCalls
    /\ LET g == getLivePending(World)
           livePending == g.live
           txId == IF livePending # NoPending THEN livePending.txId ELSE Undefined
           promptRequest == body.kind = "json" /\ payloadLooksLikePromptSend(body.json)
       IN  IF promptRequest /\ livePending # NoPending
           THEN LET visible == injectVisibleFallbackIntoPayload(body.json, livePending.context)
                    hidden == IF visible.injected THEN Injected(visible.payload, FALSE)
                              ELSE injectHiddenContextIntoPayload(body.json, livePending.context)
                    injected == visible.injected \/ hidden.injected
                    mode == IF visible.injected THEN "visible"
                            ELSE IF hidden.injected THEN "hidden" ELSE "none"
                    w1 == sendToContent(g.w, "context-injected", livePending.txId, injected, mode)
                    w2 == clearPending(w1, "", Undefined)
                IN  /\ Commit(w2)
                    /\ network' = network (+) SetToBag({
                           Call(injected,
                                IF injected /\ carries(hidden.payload, livePending.context)
                                THEN livePending.txId ELSE NoTx)})
                    /\ fetches' = fetches (+) SetToBag({
                           Fetch(IF injected THEN "patched" ELSE "original", TRUE, TRUE, txId)})
           ELSE /\ Commit(g.w)
                /\ network' = network (+) SetToBag({Call(FALSE, NoTx)})
                /\ fetches' = fetches (+) SetToBag({
                       Fetch("original", promptRequest, livePending # NoPending, txId)})
    /\ UNCHANGED <<store, scope, requestPayload, editor, domClearTimers, lastInsert, lastTrigger, nextId, result, usedUpdate, now, sendResult>>
    /\ UNCHANGED viewVars

\* the originalFetch a patched fetch awaits settles: with a response, or by rejecting
FetchSettles(f, outcome) ==
    /\ BagIn(f, fetches)
    /\ LET rest == fetches (-) SetToBag({f})
       IN  IF outcome = "reject"
           THEN /\ IF f.pc = "patched"
                   THEN /\ fetches' = rest (+) SetToBag({[f EXCEPT !.pc = "original"]})
                        /\ network' = network (+) SetToBag({Call(FALSE, NoTx)})
                   ELSE /\ fetches' = rest
                        /\ UNCHANGED network
                /\ UNCHANGED <<sendTxCounter, activeSendTxId, pendingClearTimers, timers,
                               timerSeq, pending, lastReport, storageQ>>
           ELSE LET w == IF f.promptRequest \/ f.livePending
                         THEN sendToContent(World, "prompt-request-finished", f.txId,
                                            outcome = "ok", "")
                         ELSE World
                IN  /\ Commit(w)
                    /\ fetches' = rest
                    /\ UNCHANGED network
    /\ UNCHANGED <<store, scope, requestPayload, editor, domClearTimers, lastInsert, lastTrigger, nextId, result, usedUpdate, now, sendResult>>
    /\ UNCHANGED viewVars

Outcomes == {"ok", "http_error", "reject"}

Next ==
    \/ \E text \in SelectionTexts : addSelectionToContext(text)
    \/ StorageGetResponds
    \/ StorageSetResponds
    \/ beginSelectedContextSendTransaction
    \/ \E h \in 1..MaxTx : TimerFires(h)
    \/ \E d \in ClockSteps : Tick(d)
    \/ \E body \in Bodies : PageFetch(body)
    \/ \E f \in BagToSet(fetches), outcome \in Outcomes : FetchSettles(f, outcome)

Spec == Init /\ [][Next]_vars

\* The pipeline with fairness: timeouts that are due run, the clock moves on.  Its
\* behaviours are those of Spec within tighter bounds on selections, sends and requests.
LiveMaxSelections == 1
LiveMaxTx == 1
LiveMaxCalls == 1

WithinLiveBounds ==
    /\ nextId' <= LiveMaxSelections
    /\ sendTxCounter' <= LiveMaxTx
    /\ BagCardinality(network') <= LiveMaxCalls

LiveNext ==
    \/ \E text \in SelectionTexts : addSelectionToContext(text) /\ WithinLiveBounds
    \/ StorageGetResponds /\ WithinLiveBounds
    \/ StorageSetResponds /\ WithinLiveBounds
    \/ beginSelectedContextSendTransaction /\ WithinLiveBounds
    \/ \E h \in 1..MaxTx : TimerFires(h) /\ WithinLiveBounds
    \/ \E d \in ClockSteps : Tick(d) /\ WithinLiveBounds
    \/ \E body \in Bodies : PageFetch(body) /\ WithinLiveBounds
    \/ \E f \in BagToSet(fetches), outcome \in Outcomes :
          FetchSettles(f, outcome) /\ WithinLiveBounds

LiveSpec ==
    /\ Init
    /\ [][LiveNext]_vars
    /\ WF_vars(\E h \in 1..MaxTx : TimerFires(h))
    /\ WF_vars(\E d \in ClockSteps : Tick(d))

(***************************************************************************)
(* The pipeline on a page where other scripts dispatch events of the       *)
(* bridge channel too: with another source tag, or with a direction that   *)
(* is neither side's.                                                      *)
(***************************************************************************)
EventTypes ==
    {"set-context", "clear-context", "context-injected", "context-expired",
     "prompt-request-finished"}

\* CustomEvent details that can arrive on PAGE_PATCH_EVENT
Details ==
    {[source |-> source, direction |-> direction, type |-> type, context |-> context,
      txId |-> txId, ok |-> FALSE, mode |-> ""] :
        source \in {PAGE_PATCH_SOURCE, "other-script"},
        direction \in {"to-page", "to-content", "to-nobody"},
        type \in EventTypes,
        context \in {"forged"},
        txId \in {Undefined, 1}}

ForeignDetails ==
    {detail \in Details :
        detail.source # PAGE_PATCH_SOURCE \/ detail.direction \notin {"to-page", "to-content"}}

\* document.dispatchEvent(new CustomEvent(PAGE_PATCH_EVENT, { detail })) by another script
PageDispatches(detail) ==
    /\ Commit(dispatchEvent(World, detail))
    /\ UNCHANGED <<store, scope, requestPayload, editor, domClearTimers, lastInsert, lastTrigger, nextId, result, usedUpdate, now, fetches, network,
                   sendResult>>
    /\ UNCHANGED viewVars

EventsNext ==
    \/ LiveNext
    \/ \E detail \in ForeignDetails : PageDispatches(detail)

EventsSpec == Init /\ [][EventsNext]_vars

(***************************************************************************)
(* The pipeline with the sidebar's include toggles: the user takes         *)
(* snippets out of, and back into, what the next send carries.             *)
(***************************************************************************)
\* click on a row's toggle button
toggleIncluded(id) ==
    /\ id \in idsOf(latestContextState.snippets)
    /\ includedIds' = IF id \in includedIds THEN includedIds \ {id} ELSE includedIds \cup {id}
    /\ UNCHANGED <<latestContextState, activeStorageKey>>
    /\ UNCHANGED <<store, storageQ, scope, requestPayload, editor, domClearTimers, lastInsert, lastTrigger, nextId, result, usedUpdate, now>>
    /\ UNCHANGED txVars

IncludeNext ==
    \/ LiveNext
    \/ \E id \in Ids : toggleIncluded(id)

IncludeSpec == Init /\ [][IncludeNext]_vars

(***************************************************************************)
(* Compiling what a send carries: the user collects snippets, reorders     *)
(* them in the sidebar, takes some out, and sends.                         *)
(***************************************************************************)
CompileTexts == {"abc", "wxyz"}

\* drop of one sidebar row on another: both are rows of the state on display
onReorder(from, to) ==
    /\ Idle
    /\ from \in Positions(latestContextState)
    /\ to \in Positions(latestContextState)
    /\ from # to
    /\ reorderSnippetCall(from, to, "setSidebarState")

CompileNext ==
    \/ \E text \in CompileTexts : addSelectionToContext(text)
    \/ \E from \in Indices, to \in Indices : onReorder(from, to)
    \/ \E id \in Ids : toggleIncluded(id)
    \/ StorageGetResponds
    \/ StorageSetResponds
    \/ beginSelectedContextSendTransaction
    \/ \E h \in 1..MaxTx : TimerFires(h)
    \/ Tick(FALLBACK_CLEAR_MS)

CompileSpec == Init /\ [][CompileNext]_vars

(***************************************************************************)
(* The content script while the page moves between conversations: the     *)
(* user selects text and deletes snippets, the location changes, the       *)
(* content script notices (DOM observer, popstate, hashchange, the 500 ms  *)
(* poll) and reloads its view.                                             *)
(***************************************************************************)
\* history.pushState / a link to another conversation: the location changes
Navigate(conversationScope) ==
    /\ conversationScope # scope
    /\ scope' = conversationScope
    /\ UNCHANGED <<store, storageQ, requestPayload, editor, domClearTimers, lastInsert, lastTrigger, nextId, result, usedUpdate, now>>
    /\ UNCHANGED viewVars
    /\ UNCHANGED txVars

refreshScopedStateIfNeeded ==
    /\ InFlight < MaxInFlight
    /\ getActiveStorageKey # activeStorageKey
    /\ activeStorageKey' = getActiveStorageKey
    /\ latestContextState' = [snippets |-> <<>>, totalChars |-> 0, updatedAt |-> now]
    /\ includedIds' = setState([snippets |-> <<>>, totalChars |-> 0, updatedAt |-> now])
    /\ IssueGet(Op("getState", "", "", 0, 0, 0, "setSidebarState"))
    /\ UNCHANGED <<store, scope, requestPayload, editor, domClearTimers, lastInsert, lastTrigger, nextId, result, usedUpdate, now>>
    /\ UNCHANGED txVars

\* what the content script of another tab, open on a conversation, stores for it
OtherTabState(conversationScope) ==
    LET snippet == [id |-> 0, text |-> "tab", sourceUrl |-> hrefOf(conversationScope),
                    timestamp |-> now, charCount |-> 3]
    IN  [snippets |-> <<snippet>>, totalChars |-> 3, updatedAt |-> now]

\* another tab writes the stack of its conversation; chrome.storage.onChanged reaches
\* this tab's handler
OtherTabWrites(conversationScope) ==
    LET key == KeyOfScope[conversationScope]
        value == OtherTabState(conversationScope)
        calls == handler(Changes(key, value), "local")
    IN  /\ store[key] # value
        /\ store' = [store EXCEPT ![key] = value]
        /\ IF calls # <<>>
           THEN /\ latestContextState' = calls[1]
                /\ includedIds' = setState(calls[1])
                /\ UNCHANGED activeStorageKey
           ELSE UNCHANGED viewVars
        /\ UNCHANGED <<storageQ, scope, requestPayload, editor, domClearTimers, lastInsert, lastTrigger, nextId, result, usedUpdate, now>>
        /\ UNCHANGED txVars

\* SidebarPanel onDelete
onDelete(id) ==
    /\ Idle
    /\ removeSnippetCall(id, "setSidebarState")

ScopeTexts == {"abc", "wxyz"}

ScopeNext ==
    \/ \E text \in ScopeTexts : addSelectionToContext(text)
    \/ \E id \in 1..MaxSelections : onDelete(id)
    \/ \E s \in Scopes : Navigate(s)
    \/ refreshScopedStateIfNeeded
    \/ StorageGetResponds
    \/ StorageSetResponds

ScopeSpec == Init /\ [][ScopeNext]_vars

(***************************************************************************)
(* The same, with the extension also running in another tab that stores    *)
(* the stacks of the conversations it shows.                               *)
(***************************************************************************)
TabsNext ==
    \/ addSelectionToContext("abc")
    \/ \E s \in Scopes : Navigate(s)
    \/ \E s \in Scopes : OtherTabWrites(s)
    \/ refreshScopedStateIfNeeded
    \/ StorageGetResponds
    \/ StorageSetResponds

TabsSpec == Init /\ [][TabsNext]_vars

(***************************************************************************)
(* Sends around a change of conversation: the user collects, moves to      *)
(* another conversation and sends, before or after the view was reloaded.  *)
(***************************************************************************)
ScopedSendNext ==
    \/ addSelectionToContext("abc")
    \/ \E s \in Scopes : Navigate(s)
    \/ refreshScopedStateIfNeeded
    \/ StorageGetResponds
    \/ StorageSetResponds
    \/ beginSelectedContextSendTransaction
    \/ \E h \in 1..MaxTx : TimerFires(h)
    \/ Tick(FALLBACK_CLEAR_MS)

ScopedSendSpec == Init /\ [][ScopedSendNext]_vars

(***************************************************************************)
(* The splice alone: the bridge parses a request body and patches it, and  *)
(* a body it has patched may pass through the patched fetch again.         *)
(***************************************************************************)
\* compile outputs a pending slot can hold
Contexts ==
    {formatCompiledContext(<<[text |-> "abc"]>>),
     formatCompiledContext(<<[text |-> "abc"], [text |-> "wxyz"]>>)}

\* a turn of an earlier send, which still holds the context spliced then
EarlierTurn == formatCompiledContext(<<[text |-> "hello"]>>) \o "\nwhy?"

Contents ==
    {JStr("hi"), JStr(""), JStr(EarlierTurn), JNum(1),
     JArr(<<>>), JArr(<<JStr("hi")>>), JArr(<<JNum(1), JStr("hi")>>), JArr(<<JNum(1)>>),
     JArr(<<JObj([type |-> JStr("input_text"), text |-> JStr("hi")])>>),
     JArr(<<JStr("hi"), JStr(EarlierTurn)>>),
     JObj([content_type |-> JStr("text"), parts |-> JArr(<<JStr("hi")>>)]),
     JObj([content_type |-> JStr("text"), parts |-> JArr(<<JNum(1)>>)]),
     JObj([content_type |-> JStr("text"),
           parts |-> JArr(<<JObj([text |-> JStr(EarlierTurn)]), JStr("hi")>>)]),
     JObj([text |-> JStr("hi")]), JObj([text |-> JStr(EarlierTurn)])}

Roles == {"user", "system", "assistant"}

\* entries of payload.messages and payload.input
Entries ==
    {JObj([id |-> JStr("m1"), role |-> JStr(role), content |-> content]) :
        role \in Roles, content \in Contents}
    \cup {JObj([author |-> JObj([role |-> JStr(role)]), content |-> content]) :
            role \in {"user", "system"}, content \in {JStr("hi"), JNum(1)}}
    \cup {JObj([role |-> JStr(role), text |-> JStr(text)]) :
            role \in {"user", "system"}, text \in {"hi", EarlierTurn}}

Payloads ==
    {JObj([messages |-> JArr(<<entry>>)]) : entry \in Entries}
    \cup {JObj([input |-> JArr(<<entry>>), instructions |-> instructions]) :
            entry \in Entries, instructions \in {JNum(1), JStr("be brief")}}
    \cup {JObj([prompt |-> JStr(text)]) : text \in {"hi", EarlierTurn}}
    \cup {JObj([input |-> JStr(text)]) : text \in {"hi", EarlierTurn}}
    \cup {JObj([messages |-> JArr(<<JObj([role |-> JStr("user"), content |-> JStr(EarlierTurn)]),
                                    JObj([role |-> JStr("user"), content |-> JStr("hi")])>>)]),
          UserMessage, SystemOnly, Unpatchable}

\* const payload = JSON.parse(bodyText)
Parse(body) ==
    /\ requestPayload = Undef
    /\ requestPayload' = body
    /\ UNCHANGED <<store, storageQ, scope, editor, domClearTimers, lastInsert, lastTrigger, nextId, result, usedUpdate, now>>
    /\ UNCHANGED viewVars
    /\ UNCHANGED txVars

\* the visible path, and the hidden path only if the visible path did not splice
patch(body, context) ==
    LET visible == injectVisibleFallbackIntoPayload(body, context)
    IN  IF visible.injected THEN visible.payload
        ELSE injectHiddenContextIntoPayload(body, context).payload

\* the bridge patches the payload of a prompt request with the context of its pending slot
Patch(context) ==
    /\ requestPayload # Undef
    /\ payloadLooksLikePromptSend(requestPayload)
    /\ requestPayload' = patch(requestPayload, context)
    /\ UNCHANGED <<store, storageQ, scope, editor, domClearTimers, lastInsert, lastTrigger, nextId, result, usedUpdate, now>>
    /\ UNCHANGED viewVars
    /\ UNCHANGED txVars

SpliceNext ==
    \/ \E body \in Payloads : Parse(body)
    \/ \E context \in Contexts : Patch(context)

SpliceSpec == Init /\ [][SpliceNext]_vars

(***************************************************************************)
(* The DOM path: on the sites without a network transaction a send trigger *)
(* writes the compiled context into the page's editor, and a manual inject *)
(* inserts it through the adapter (injectionEngine).                       *)
(***************************************************************************)
MaxInserts == 2
MaxClearTimers == 2
MaxDomInFlight == 2

\* how many times m occurs in s
occurrences(s, m) ==
    Cardinality({i \in 1..(Len(s) - Len(m) + 1) : SubSeq(s, i, i + Len(m) - 1) = m})

\* editor.isContentEditable
isContentEditable(element) == element.kind = "contenteditable"

\* editor instanceof HTMLTextAreaElement || editor instanceof HTMLInputElement
hasValue(element) == element.kind \in {"textarea", "input"}

\* the element after `text` replaced its characters from..to, the caret after the insertion
splice(element, from, to, text) ==
    [element EXCEPT !.text = SubSeq(element.text, 1, from) \o text
                                 \o SubSeq(element.text, to + 1, Len(element.text)),
                    !.start = from + Len(text),
                    !.end = from + Len(text)]

\* new InputEvent("input"), new Event("change")
dispatchInputEvents == <<"input", "change">>

\* document.execCommand("insertText", false, text) replaces the selection; `inserted` is
\* what the command returns
insertWithExecCommand(element, text, inserted) ==
    IF inserted
    THEN [returned |-> TRUE, element |-> splice(element, element.start, element.end, text),
          events |-> dispatchInputEvents]
    ELSE [returned |-> FALSE, element |-> element, events |-> <<>>]

\* window.getSelection() is null, or its range lies in the editor (the text node goes to
\* the start of the range), or there is no range in the editor (it goes to the end)
Selections == {"null", "inEditor", "elsewhere"}

insertWithRange(element, text, selection) ==
    IF selection = "null"
    THEN [returned |-> FALSE, element |-> element, events |-> <<>>]
    ELSE LET at == IF selection = "inEditor" THEN element.start ELSE Len(element.text)
         IN  [returned |-> TRUE, element |-> splice(element, at, at, text),
              events |-> dispatchInputEvents]

insertIntoTextarea(element, text) ==
    IF ~hasValue(element)
    THEN [returned |-> FALSE, element |-> element, events |-> <<>>]
    ELSE [returned |-> TRUE, element |-> splice(element, element.start, element.end, text),
          events |-> <<"input", "change">>]

\* what one strategy did, after the strategies `tried` before it
Attempt(tried, name, done) ==
    [returned |-> done.returned, element |-> done.element, events |-> done.events,
     tried |-> Append(tried, name)]

\* faulty variant: the range splice is tried although the editing command inserted
injectText_triesAll(element, text, inserted, selection) ==
    IF element.kind = "none"
    THEN [returned |-> FALSE, element |-> element, events |-> <<>>, tried |-> <<>>]
    ELSE IF isContentEditable(element)
         THEN LET byCommand == insertWithExecCommand(element, text, inserted)
                  byRange == insertWithRange(byCommand.element, text, selection)
              IN  IF byRange.returned
                  THEN [Attempt(<<"execCommand">>, "range", byRange)
                            EXCEPT !.events = byCommand.events \o byRange.events]
                  ELSE IF byCommand.returned THEN Attempt(<<>>, "execCommand", byCommand)
                  ELSE Attempt(<<"execCommand", "range">>, "textarea",
                             insertIntoTextarea(element, text))
         ELSE Attempt(<<>>, "textarea", insertIntoTextarea(element, text))

\* injectText(editor, text): the result, the element afterwards, the events dispatched on
\* it and the strategies tried, in order
injectText(element, text, inserted, selection) ==
    IF element.kind = "none"
    THEN [returned |-> FALSE, element |-> element, events |-> <<>>, tried |-> <<>>]
    ELSE IF isContentEditable(element)
         THEN LET byCommand == insertWithExecCommand(element, text, inserted)
                  byRange == insertWithRange(element, text, selection)
              IN  IF byCommand.returned THEN Attempt(<<>>, "execCommand", byCommand)
                  ELSE IF byRange.returned THEN Attempt(<<"execCommand">>, "range", byRange)
                  ELSE Attempt(<<"execCommand", "range">>, "textarea",
                             insertIntoTextarea(element, text))
         ELSE Attempt(<<>>, "textarea", insertIntoTextarea(element, text))

\* faulty variant: the editor's text is not searched for the marker
injectContextIntoEditorDOM_noMarkerCheck(element, compiledContext, inserted) ==
    IF compiledContext = "" \/ element.kind = "none"
    THEN [returned |-> FALSE, element |-> element, armed |-> FALSE]
    ELSE IF element.kind = "textarea"
    THEN [returned |-> TRUE, armed |-> TRUE,
          element |-> [element EXCEPT !.text = compiledContext \o "\n" \o element.text,
                                      !.start = Len(compiledContext) + 1 + Len(element.text),
                                      !.end = Len(compiledContext) + 1 + Len(element.text)]]
    ELSE [returned |-> TRUE, armed |-> TRUE,
          element |-> IF isContentEditable(element) /\ inserted
                      THEN splice(element, 0, 0, compiledContext \o "\n")
                      ELSE [element EXCEPT !.start = 0, !.end = 0]]

\* injectContextIntoEditorDOM: its result, the editor afterwards and whether the 300 ms
\* timeout that clears the stack was armed. compiledContext is "" for null; `inserted`:
\* whether document.execCommand inserted the text (its result is not read)
injectContextIntoEditorDOM(element, compiledContext, inserted) ==
    IF compiledContext = "" \/ element.kind = "none"
    THEN [returned |-> FALSE, element |-> element, armed |-> FALSE]
    ELSE IF includes(element.text, CONTEXT_MARKER)
    THEN [returned |-> TRUE, element |-> element, armed |-> FALSE]
    ELSE IF element.kind = "textarea"
    THEN [returned |-> TRUE, armed |-> TRUE,
          element |-> [element EXCEPT !.text = compiledContext \o "\n" \o element.text,
                                      !.start = Len(compiledContext) + 1 + Len(element.text),
                                      !.end = Len(compiledContext) + 1 + Len(element.text)]]
    ELSE [returned |-> TRUE, armed |-> TRUE,
          element |-> IF isContentEditable(element) /\ inserted
                      THEN splice(element, 0, 0, compiledContext \o "\n")
                      ELSE [element EXCEPT !.start = 0, !.end = 0]]

\* the click, submit and keydown listeners of a send action
SendTrigger ==
    IF isChatGPTActive
    THEN beginSelectedContextSendTransaction
    ELSE /\ \E inserted \in BOOLEAN :
                LET done == injectContextIntoEditorDOM(editor, getCompiledSelectedContext, inserted)
                IN  /\ done.armed => domClearTimers < MaxClearTimers
                    /\ editor' = done.element
                    /\ domClearTimers' = IF done.armed THEN domClearTimers + 1 ELSE domClearTimers
                    /\ lastTrigger' = [returned |-> done.returned, armed |-> done.armed,
                                       marked |-> includes(editor.text, CONTEXT_MARKER)]
         /\ UNCHANGED <<store, storageQ, scope, requestPayload, lastInsert, nextId, result,
                        usedUpdate, now>>
         /\ UNCHANGED viewVars
         /\ UNCHANGED txVars

\* 300 ms later: void contextEngine.clear().then((next) => setSidebarState(next))
DomTimerFires ==
    /\ domClearTimers > 0
    /\ Len(storageQ) < MaxDomInFlight
    /\ domClearTimers' = domClearTimers - 1
    /\ IssueClear("setSidebarState")
    /\ UNCHANGED <<store, scope, requestPayload, editor, lastInsert, lastTrigger, nextId, result, usedUpdate, now>>
    /\ UNCHANGED viewVars
    /\ UNCHANGED txVars

\* compileAndInjectAll(ids) up to its await: contextEngine.getState() is issued
compileAndInjectAll(ids) ==
    /\ Idle
    /\ occurrences(editor.text, CONTEXT_MARKER) < MaxInserts
    /\ IssueGet([kind |-> "getState", then |-> "insertText", ids |-> ids])
    /\ UNCHANGED <<store, scope, requestPayload, editor, domClearTimers, lastInsert, lastTrigger, nextId, result,
                   usedUpdate, now>>
    /\ UNCHANGED viewVars
    /\ UNCHANGED txVars

\* compileAndInjectAll after its await: the snippets are picked, compiled and handed to
\* adapter.insertText
InsertCompiled ==
    /\ storageQ # <<>>
    /\ Head(storageQ).req = "get"
    /\ Head(storageQ).op.then = "insertText"
    /\ LET r == Head(storageQ)
           state == getStore(store[r.key])
           Picked(snippet) == snippet.id \in r.op.ids
           snippets == IF r.op.ids # {} THEN SelectSeq(state.snippets, Picked)
                       ELSE state.snippets
       IN  /\ storageQ' = Tail(storageQ)
           /\ IF Len(snippets) = 0
              THEN UNCHANGED <<editor, lastInsert>>
              ELSE \E inserted \in BOOLEAN, selection \in Selections :
                       LET done == injectText(editor, formatCompiledContext(snippets),
                                              inserted, selection)
                       IN  /\ editor' = done.element
                           /\ lastInsert' = [returned |-> done.returned, tried |-> done.tried,
                                             events |-> done.events]
    /\ UNCHANGED <<store, scope, requestPayload, domClearTimers, lastTrigger, nextId, result, usedUpdate, now>>
    /\ UNCHANGED viewVars
    /\ UNCHANGED txVars

\* the page's own send handler takes the editor's text as the message and empties the editor
PageSubmits ==
    /\ editor.kind # "none"
    /\ editor.text # ""
    /\ editor' = [editor EXCEPT !.text = "", !.start = 0, !.end = 0]
    /\ UNCHANGED <<store, storageQ, scope, requestPayload, domClearTimers, lastInsert, lastTrigger, nextId,
                   result, usedUpdate, now>>
    /\ UNCHANGED viewVars
    /\ UNCHANGED txVars

\* the elements the adapter's selectors find, the user's question typed, the caret in it
Elements ==
    {NoElement}
        \cup {[kind |-> k, text |-> "hi", start |-> s[1], end |-> s[2]] :
                k \in {"contenteditable", "textbox", "textarea"},
                s \in {<<0, 0>>, <<1, 2>>, <<2, 2>>}}

DomTexts == {"abc"}

DomInit == \E element \in Elements : Loaded("claude:c1", element)

DomNext ==
    \/ \E text \in DomTexts : addSelectionToContext(text)
    \/ \E id \in Ids : toggleIncluded(id)
    \/ StorageGetResponds
    \/ StorageSetResponds
    \/ SendTrigger
    \/ DomTimerFires
    \/ \E ids \in {{}, idsOf(getIncludedIds)} : compileAndInjectAll(ids)
    \/ InsertCompiled
    \/ PageSubmits

DomSpec == DomInit /\ [][DomNext]_vars

(***************************************************************************)
(* One send on the DOM path, run to its end: the user collects (and may    *)
(* inject by hand) before the first send trigger and adds nothing after    *)
(* it. Storage answers every request, an armed timeout runs, and the       *)
(* await of compileAndInjectAll returns; what the user and the page do is  *)
(* up to them.                                                             *)
(***************************************************************************)
DomLiveNext ==
    \/ lastTrigger = NoTrigger /\ addSelectionToContext("abc")
    \/ \E id \in Ids : toggleIncluded(id)
    \/ StorageGetResponds
    \/ StorageSetResponds
    \/ SendTrigger
    \/ DomTimerFires
    \/ \E ids \in {{}, idsOf(getIncludedIds)} : compileAndInjectAll(ids)
    \/ InsertCompiled
    \/ PageSubmits

DomLiveSpec ==
    /\ DomInit
    /\ [][DomLiveNext]_vars
    /\ WF_vars(StorageGetResponds)
    /\ WF_vars(StorageSetResponds)
    /\ WF_vars(InsertCompiled)
    /\ WF_vars(DomTimerFires)

(***************************************************************************)
(* Properties of the engine.                                               *)
(***************************************************************************)
Persisted == {store[k] : k \in {key \in StorageKeys : store[key] # NoValue}}

Consistent(state) ==
    /\ state.totalChars = sumCharCount(state.snippets)
    /\ \A i \in 1..Len(state.snippets) :
          state.snippets[i].charCount = Len(state.snippets[i].text)

\* C9: after every engine operation (rejected adds and no-op reorders included) the state
\* it returned and the state it persisted have totalChars equal to the sum of their
\* snippets' charCount, and every snippet's charCount is the length of its text.
C9_TotalCharsIsSum ==
    /\ Consistent(result.state)
    /\ \A state \in Persisted : Consistent(state)

\* an add that evicted the oldest snippet has returned
C9_Witness ==
    /\ result.kind = "add"
    /\ result.ok
    /\ Len(result.state.snippets) = LimitSnippets
    /\ result.state.snippets[1].id > 1
    /\ store[getActiveStorageKey] # NoValue
    /\ store[getActiveStorageKey].totalChars = result.state.totalChars

\* C10 as stated: totalChars never exceeds maxTotalChars, whatever operations ran.
C10_CharLimitAlways ==
    \A state \in Persisted : state.totalChars <= limits.maxTotalChars

\* C10 amended: as long as updateSnippet has not been called, totalChars never exceeds
\* maxTotalChars (add is the only operation that checks the limit).
C10_CharLimitWithoutUpdate ==
    ~usedUpdate => \A state \in Persisted : state.totalChars <= limits.maxTotalChars

\* an add has been rejected for the char limit while the stack was within it
C10_Witness ==
    /\ ~usedUpdate
    /\ result.kind = "add"
    /\ result.reason = "Context stack char limit reached"
    /\ store[getActiveStorageKey] # NoValue
    /\ store[getActiveStorageKey].totalChars > 0

DistinctTexts(snippets) ==
    \A i \in 1..Len(snippets), j \in 1..Len(snippets) :
        snippets[i].text = snippets[j].text => i = j

\* C11 as stated: no two snippets of the stack have equal text, whatever operations ran,
\* update to the text of another snippet included.
C11_NoDuplicateTextsAlways ==
    /\ DistinctTexts(result.state.snippets)
    /\ \A state \in Persisted : DistinctTexts(state.snippets)

\* C11 amended: as long as updateSnippet has not been called, no two snippets of the
\* stack have equal text (add is the only operation that checks for duplicates).
C11_NoDuplicateTextsWithoutUpdate ==
    ~usedUpdate =>
        /\ DistinctTexts(result.state.snippets)
        /\ \A state \in Persisted : DistinctTexts(state.snippets)

\* an add has been rejected as a duplicate of a snippet the stack still holds
C11_Witness ==
    /\ ~usedUpdate
    /\ result.kind = "add"
    /\ result.reason = "Duplicate snippet"
    /\ Len(result.state.snippets) = LimitSnippets
    /\ store[getActiveStorageKey] = result.state

DistinctIds(snippets) ==
    \A i \in 1..Len(snippets), j \in 1..Len(snippets) :
        snippets[i].id = snippets[j].id => i = j

WithinSize(state) ==
    /\ Len(state.snippets) <= limits.maxSnippets
    /\ DistinctIds(state.snippets)

\* C12: after any sequence of add/remove/update/reorder/clear from the empty stack, the
\* state an operation returned and every persisted state hold at most maxSnippets
\* snippets, and the ids of their snippets are pairwise distinct.
C12_SizeLimitAndDistinctIds ==
    /\ WithinSize(result.state)
    /\ \A state \in Persisted : WithinSize(state)

\* a full stack took one more snippet: the add returned a full stack without the oldest
C12_Witness ==
    /\ result.kind = "add"
    /\ result.ok
    /\ nextId > LimitSnippets
    /\ Len(result.state.snippets) = LimitSnippets
    /\ result.state.snippets[LimitSnippets].id = nextId
    /\ store[getActiveStorageKey] = result.state

\* the step in which an addSnippet call returns to its caller
AddReturns ==
    /\ storageQ # <<>>
    /\ Head(storageQ).op.kind = "add"
    /\ Len(storageQ') < Len(storageQ)

\* the state the returning add read, and the text it was given, normalized
AddPrior == getStore(store[Head(storageQ).key])

AddText == normalizeText(Head(storageQ).op.text)

ValidNonDuplicate ==
    /\ Len(AddText) >= 3
    /\ Len(AddText) <= 10000
    /\ \A i \in 1..Len(AddPrior.snippets) : AddPrior.snippets[i].text # AddText

\* totalChars of the stack with the text appended and, when full, without its oldest
CandidateTotal ==
    IF Len(AddPrior.snippets) < limits.maxSnippets
    THEN AddPrior.totalChars + Len(AddText)
    ELSE AddPrior.totalChars - AddPrior.snippets[1].charCount + Len(AddText)

\* the add returned and persisted the prior stack with the snippet appended as last:
\* one longer while below maxSnippets, without the oldest snippet once full
Appended ==
    LET prior == AddPrior.snippets
        after == result'.state.snippets
    IN  /\ result'.kind = "add"
        /\ result'.ok
        /\ store'[Head(storageQ).key] = result'.state
        /\ after # <<>>
        /\ after[Len(after)].text = AddText
        /\ after[Len(after)].charCount = Len(AddText)
        /\ IF Len(prior) < limits.maxSnippets
           THEN /\ Len(after) = Len(prior) + 1
                /\ SubSeq(after, 1, Len(prior)) = prior
                /\ result'.state.totalChars = AddPrior.totalChars + Len(AddText)
           ELSE /\ Len(after) = Len(prior)
                /\ SubSeq(after, 1, Len(prior) - 1) = Tail(prior)

\* C13 as stated: every add of a valid, non-duplicate text within the length bounds
\* appends the snippet as last (length + 1, totalChars + charCount below maxSnippets;
\* the oldest evicted, the others kept in order, at maxSnippets).
C13_ValidAddAppendsAlways ==
    [][AddReturns /\ ValidNonDuplicate => Appended]_vars

\* C13 amended: every add of a valid, non-duplicate text within the length bounds whose
\* candidate stack stays within maxTotalChars appends the snippet as last (length + 1,
\* totalChars + charCount below maxSnippets; the oldest evicted, the others kept in
\* order, at maxSnippets).
C13_ValidAddWithinCharLimitAppends ==
    [][AddReturns /\ ValidNonDuplicate /\ CandidateTotal <= limits.maxTotalChars
          => Appended]_vars

\* an add into a full stack has returned: the oldest snippet is gone, the second is first
C13_Witness ==
    /\ result.kind = "add"
    /\ result.ok
    /\ Len(result.state.snippets) = LimitSnippets
    /\ result.state.snippets[1].id = 2
    /\ result.state.snippets[LimitSnippets].id = LimitSnippets + 1
    /\ store[getActiveStorageKey] = result.state

\* the add returned a rejection with the state it had read and left the store alone:
\* nothing was written and no write was issued
Rejected(reason) ==
    /\ result'.kind = "add"
    /\ ~result'.ok
    /\ result'.reason = reason
    /\ result'.state = AddPrior
    /\ Head(storageQ).req = "get"
    /\ storageQ' = Tail(storageQ)
    /\ store' = store

\* C14: an add whose candidate state has totalChars above maxTotalChars returns
\* ok = false with the char-limit reason and the prior state, and the store keeps its
\* value: neither the new snippet nor the eviction of the oldest is applied.
C14_CharLimitRejectionWritesNothing ==
    [][AddReturns /\ ValidNonDuplicate /\ CandidateTotal > limits.maxTotalChars
          => Rejected("Context stack char limit reached")]_vars

\* an add into a full stack was rejected for the char limit; the stack still holds its
\* oldest snippet
C14_Witness ==
    /\ result.kind = "add"
    /\ result.reason = "Context stack char limit reached"
    /\ Len(result.state.snippets) = LimitSnippets
    /\ store[getActiveStorageKey] = result.state
    /\ result.state.snippets[1].id = 1

\* C15: an add whose trimmed text has fewer than 3 characters returns ok = false with
\* the too-short reason, one whose trimmed text has more than 10000 characters returns
\* ok = false with the too-large reason; both return the prior state and leave the
\* persisted state as it was.
C15_LengthRejectionsWriteNothing ==
    [][/\ AddReturns /\ Len(AddText) < 3 => Rejected("Selection too short")
       /\ AddReturns /\ Len(AddText) > 10000 => Rejected("Selection too large")]_vars

\* a selection of 10001 characters was rejected while the stack held a snippet
C15_Witness ==
    /\ result.kind = "add"
    /\ result.reason = "Selection too large"
    /\ result.state.snippets # <<>>
    /\ store[getActiveStorageKey] = result.state

\* the operation that returned last was a successful add of the text now added again
FollowsAddOfSameText ==
    /\ result.kind = "add"
    /\ result.ok
    /\ result.state.snippets # <<>>
    /\ result.state.snippets[Len(result.state.snippets)].text = AddText

\* C16: an add that follows a successful add at once, with a text that trims to the same
\* string, returns ok = false with the duplicate reason and leaves the persisted stack
\* as it was, whatever white space surrounds either text and whatever the sourceUrl.
C16_RepeatedAddIsDuplicate ==
    [][AddReturns /\ FollowsAddOfSameText => Rejected("Duplicate snippet")]_vars

\* a snippet selected on one page was selected again and rejected as a duplicate
C16_Witness ==
    /\ result.kind = "add"
    /\ result.reason = "Duplicate snippet"
    /\ Len(result.state.snippets) = 1
    /\ result.state.snippets[1].text = "abc"
    /\ result.state.snippets[1].sourceUrl = "https://example.org/page"
    /\ store[getActiveStorageKey] = result.state

\* the stack persisted for the active scope
Stack == getStore(store[getActiveStorageKey])

\* C17 as stated: after 76 snippets of 1 character each were added one after the other
\* to the empty stack, the stack has length 75 and totalChars 75.
C17_OneCharSnippetsFillTheStack ==
    [][ScenarioAdd(1) /\ now' = ScenarioAdds
          => Len(Stack'.snippets) = 75 /\ Stack'.totalChars = 75]_vars

\* C17 amended: after 76 snippets of 3 characters each were added one after the other to
\* the empty stack, the stack has length 75, the first snippet added is gone and
\* totalChars is 225; after 76 snippets of 1 character each the stack is still empty.
C17_ThreeCharSnippetsFillTheStack ==
    [][/\ ScenarioAdd(3) /\ now' = ScenarioAdds
          => /\ Len(Stack'.snippets) = DEFAULT_STORAGE_LIMITS.maxSnippets
             /\ Stack'.totalChars = 3 * DEFAULT_STORAGE_LIMITS.maxSnippets
             /\ Stack'.snippets[1].id = ScenarioAdds - DEFAULT_STORAGE_LIMITS.maxSnippets + 1
             /\ Stack'.snippets[DEFAULT_STORAGE_LIMITS.maxSnippets].id = ScenarioAdds
       /\ ScenarioAdd(1) /\ now' = ScenarioAdds
          => /\ Stack'.snippets = <<>>
             /\ result'.reason = "Selection too short"]_vars

\* the last add of the scenario has returned and the stack is full
C17_Witness ==
    /\ now = ScenarioAdds
    /\ result.kind = "add"
    /\ result.ok
    /\ Len(Stack.snippets) = DEFAULT_STORAGE_LIMITS.maxSnippets
    /\ nextId = ScenarioAdds

\* the step in which the write of an operation that read the stack is applied
WriteApplied ==
    /\ storageQ # <<>>
    /\ Head(storageQ).req = "set"
    /\ Head(storageQ).op.kind # "clear"
    /\ Len(storageQ') < Len(storageQ)

\* another write to the same key was applied between the operation's read and its write
Overtaken == getStore(store[Head(storageQ).key]) # Head(storageQ).op.state

\* the operation applied to the state it read, with the id and the time it used
CandidateOf(op, value) ==
    CASE op.kind = "add" ->
            addSnippet(op.state, [text |-> op.text, sourceUrl |-> op.sourceUrl],
                       value.snippets[Len(value.snippets)].id, value.updatedAt, limits).state
      [] op.kind = "remove" -> removeSnippet(op.state, op.id, value.updatedAt).state
      [] op.kind = "update" -> updateSnippet(op.state, op.id, op.text, value.updatedAt).state
      [] op.kind = "reorder" ->
            reorderSnippet(op.state, op.startIndex, op.endIndex, value.updatedAt).state

\* C18: when an operation writes after another write landed between its read and its
\* write, the persisted state becomes exactly its own candidate, the operation applied
\* to the state it read: nothing of the write in between is kept.
C18_LastWriteWins ==
    [][WriteApplied /\ Overtaken
          => /\ store'[Head(storageQ).key] = Head(storageQ).value
             /\ store'[Head(storageQ).key]
                    = CandidateOf(Head(storageQ).op, Head(storageQ).value)]_vars

\* two adds read the empty stack; the write of the first has landed, the second is about
\* to write a stack that holds its own snippet only
C18_Witness ==
    /\ Len(storageQ) = 1
    /\ Head(storageQ).req = "set"
    /\ Head(storageQ).op.kind = "add"
    /\ Head(storageQ).op.state = EMPTY_STATE
    /\ Len(Head(storageQ).value.snippets) = 1
    /\ Len(Stack.snippets) = 1
    /\ Stack.snippets[1].text # Head(storageQ).value.snippets[1].text

\* the snippets persisted under a key were all added on a page of the key's scope
OwnSnippetsOnly(conversationScope, state) ==
    \A i \in 1..Len(state.snippets) :
        deriveConversationScope(state.snippets[i].sourceUrl) = conversationScope

\* C19: whatever the interleaving of engine operations and scope changes, a snippet
\* added under one scope key never appears in the persisted state of another key.
C19_ScopesNeverMerge ==
    \A s \in Scopes : OwnSnippetsOnly(s, getStore(store[storageKeyOf(s)]))

\* the content script takes another key as the active one
ScopeSwitched == activeStorageKey' # activeStorageKey

\* the load started by refreshScopedStateIfNeeded for the key now active returns
LoadReturns ==
    /\ storageQ # <<>>
    /\ Head(storageQ).req = "get"
    /\ Head(storageQ).op.kind = "getState"
    /\ Head(storageQ).key = activeStorageKey
    /\ Len(storageQ') < Len(storageQ)

\* every snippet of the in-memory view was added on a page of the active scope
ViewOfActiveScope ==
    \A i \in 1..Len(latestContextState.snippets) :
        storageKeyOf(deriveConversationScope(latestContextState.snippets[i].sourceUrl))
            = activeStorageKey

\* a switch empties the view in the same step, and the load for the active key, when it
\* returns, makes the view the state persisted under that key
SwitchEmptiesThenLoads ==
    /\ [][ScopeSwitched => latestContextState'.snippets = <<>>]_vars
    /\ [][LoadReturns => latestContextState' = getStore(store[activeStorageKey])]_vars

\* C20: when the content script switches to a new scope key the view is empty in the
\* same step; when the load for the active key returns the view becomes the state
\* persisted under that key; and the view never holds a snippet of a scope other than
\* the active one, whatever loads and operation results of before the switch arrive
\* after it.
C20_ViewFollowsActiveScope ==
    /\ SwitchEmptiesThenLoads
    /\ []ViewOfActiveScope

\* a step in which the value of a key changes without a request of this tab answered
WrittenElsewhere(key) ==
    /\ storageQ' = storageQ
    /\ store'[key] # store[key]

\* C21: the subscriber is invoked only for a write to the key active when the change is
\* delivered: a write under another key leaves the view as it was, a write under the
\* active key passes the new value to the subscriber, which makes it the view.
C21_SubscriberOnlyForActiveKey ==
    [][\A key \in StorageKeys :
          WrittenElsewhere(key) =>
              IF key = getActiveStorageKey
              THEN latestContextState' = store'[key]
              ELSE UNCHANGED viewVars]_vars

\* the stack of the other conversation was written while the view showed this one's
C21_Witness ==
    /\ latestContextState.snippets # <<>>
    /\ ViewOfActiveScope
    /\ activeStorageKey = getActiveStorageKey
    /\ \E s \in Scopes :
          /\ KeyOfScope[s] # getActiveStorageKey
          /\ store[KeyOfScope[s]] = OtherTabState(s)
          /\ latestContextState # OtherTabState(s)

\* a reorder returns to its caller in this step: after its write, or at once when
\* startIndex has no element
ReorderReturns ==
    /\ storageQ # <<>>
    /\ Head(storageQ).op.kind = "reorder"
    /\ Len(storageQ') < Len(storageQ)

\* the state the returning reorder read
ReorderPrior ==
    IF Head(storageQ).req = "set" THEN Head(storageQ).op.state
    ELSE getStore(store[Head(storageQ).key])

\* reorderSnippet(endIndex, startIndex) called next restores the order the reorder found
Undone ==
    reorderSnippet(result'.state, Head(storageQ).op.endIndex, Head(storageQ).op.startIndex,
                   now).state.snippets = ReorderPrior.snippets

\* C28 as stated: for any stack and any indices i and j, reorder(i, j) followed by
\* reorder(j, i) restores the original snippet order.
C28_ReorderIsSelfInverseForAnyIndices ==
    [][ReorderReturns => Undone]_vars

\* C28: for any stack and any indices i and j that are positions of the stack
\* (0 <= i, j < snippets.length), reorder(i, j) followed by reorder(j, i) restores the
\* original snippet order.
C28_ReorderOfPositionsIsSelfInverse ==
    [][(/\ ReorderReturns
        /\ Head(storageQ).op.startIndex \in Positions(ReorderPrior)
        /\ Head(storageQ).op.endIndex \in Positions(ReorderPrior))
          => Undone]_vars

\* reorder has moved the older of two snippets behind the newer one
C28_Witness ==
    /\ result.kind = "reorder"
    /\ Len(result.state.snippets) = LimitSnippets
    /\ result.state.snippets[1].id > result.state.snippets[LimitSnippets].id
    /\ store[getActiveStorageKey] = result.state

\* a remove returns to its caller in this step
RemoveReturns ==
    /\ storageQ # <<>>
    /\ Head(storageQ).op.kind = "remove"
    /\ Len(storageQ') < Len(storageQ)

\* the stack the returning operation read
Prior == Head(storageQ).op.state

\* what is persisted under the operation's key once it has returned
After == getStore(store'[Head(storageQ).key])

SameStack(state, other) ==
    state.snippets = other.snippets /\ state.totalChars = other.totalChars

\* C29 as stated: remove(id) with an id not in the stack, and reorder(from, to) where from
\* is not the position of an element of the stack, return without error and leave the
\* snippet sequence and totalChars, returned and persisted, exactly as they were.
C29_AbsentTargetChangesNothing ==
    [][/\ (RemoveReturns /\ Head(storageQ).op.id \notin idsOf(Prior.snippets))
            => (result'.ok /\ SameStack(result'.state, Prior) /\ SameStack(After, Prior))
       /\ (ReorderReturns /\ Head(storageQ).op.startIndex \notin Positions(ReorderPrior))
            => /\ result'.ok
               /\ SameStack(result'.state, ReorderPrior)
               /\ SameStack(After, ReorderPrior)]_vars

(***************************************************************************)
(* Properties of the send pipeline.                                        *)
(***************************************************************************)
\* the coordinator called contextEngine.clear() in this step
ClearIssued == storageQ' = Append(storageQ, clearRequest("setSidebarState"))

\* C1: for every txId at most one request that left the page carries that transaction's
\* context, and once a request carries it the bridge's slot no longer holds it.
C1_SplicedAtMostOnce ==
    \A txId \in 1..MaxTx :
        /\ \A call \in BagToSet(network) :
              call.context = txId => (call = Call(TRUE, txId) /\ CopiesIn(call, network) = 1)
        /\ Delivered(txId) => (pending = NoPending \/ pending.txId # txId)

\* a second prompt request went out unpatched while the patched one was still in flight
C1_Witness ==
    /\ CopiesIn(Call(TRUE, 1), network) = 1
    /\ CopiesIn(Call(FALSE, NoTx), network) = 1
    /\ BagIn(Fetch("patched", TRUE, TRUE, 1), fetches)
    /\ BagIn(Fetch("original", TRUE, FALSE, Undefined), fetches)
    /\ activeSendTxId = 1

\* C2: a send gesture that reaches beginSendTransaction while a transaction is active
\* returns the active txId and leaves counter, active txId, timers and the bridge's slot
\* as they were.
C2_BeginWhilePendingIsNoOp ==
    [][(activeSendTxId # NoTx /\ Len(getIncludedIds) > 0 /\ beginSelectedContextSendTransaction)
          => /\ sendResult'.returned = activeSendTxId
             /\ UNCHANGED <<sendTxCounter, activeSendTxId, pendingClearTimers, timers, timerSeq,
                            pending>>]_vars

\* a send gesture came while transaction 1 was active
C2_Witness ==
    /\ sendResult.reused
    /\ sendResult.returned = 1
    /\ activeSendTxId = 1
    /\ sendTxCounter = 1
    /\ timerSeq = 1
    /\ pending # NoPending

\* C3: when the fallback timeout runs, the coordinator is Idle, the bridge's slot is empty
\* and clear() has been called; and every active transaction eventually ends, every armed
\* context is eventually dropped.
C3_TimerReturnsToIdle ==
    /\ [][\A h \in 1..MaxTx :
             TimerFires(h) => (activeSendTxId' = NoTx /\ pending' = NoPending /\ ClearIssued)]_vars
    /\ (activeSendTxId # NoTx) ~> (activeSendTxId = NoTx /\ pending = NoPending)

\* a transaction ended by its timeout, the page having made no request, and the stack is
\* empty
C3_Witness ==
    /\ network = EmptyBag
    /\ lastReport = NoReport
    /\ sendTxCounter = 1
    /\ activeSendTxId = NoTx
    /\ pending = NoPending
    /\ store[getActiveStorageKey] # NoValue
    /\ store[getActiveStorageKey].snippets = <<>>
    /\ latestContextState.snippets = <<>>

\* C4: every armed timeout is the one of the active transaction, so a timeout that runs
\* acts on the transaction it was armed for.
C4_ResolvedTimerNeverActs ==
    \A h \in DOMAIN timers :
        /\ timers[h].txId = activeSendTxId
        /\ activeSendTxId \in DOMAIN pendingClearTimers
        /\ pendingClearTimers[activeSendTxId] = h

\* transaction 2 began at time 0, so transaction 1 was resolved by a report before its
\* timeout was due; now is a time when the timeout of transaction 1 would have run
C4_Witness ==
    /\ activeSendTxId = 2
    /\ DOMAIN timers = {2}
    /\ timers[2].due = FALLBACK_CLEAR_MS
    /\ now >= FALLBACK_CLEAR_MS
    /\ lastReport.type = "prompt-request-finished"
    /\ lastReport.active = 1

\* C5: a prompt-request-finished report with a txId other than the active one changes
\* neither the active txId, nor the timers, nor the bridge's slot, nor the stack.
C5_MismatchedReportIgnored ==
    [][(/\ lastReport' # lastReport
        /\ lastReport'.type = "prompt-request-finished"
        /\ activeSendTxId # NoTx
        /\ lastReport'.txId # Undefined
        /\ lastReport'.txId # activeSendTxId)
          => UNCHANGED <<activeSendTxId, pendingClearTimers, timers, pending, storageQ, store,
                         latestContextState>>]_vars

\* a request of transaction 1 finished while transaction 2 was active
C5_Witness ==
    /\ lastReport.type = "prompt-request-finished"
    /\ lastReport.txId = 1
    /\ lastReport.active = 2
    /\ activeSendTxId = 2
    /\ DOMAIN timers = {2}
    /\ pending # NoPending

\* C6 as stated: whenever the coordinator goes from Pending to Idle, the bridge's slot is
\* empty afterwards and clear() has been called.
C6_EveryReturnToIdleClears ==
    [][(activeSendTxId # NoTx /\ activeSendTxId' = NoTx)
          => (pending' = NoPending /\ ClearIssued)]_vars

\* C7 as stated: a context-injected report with ok = true for the active txId takes the
\* coordinator to Idle, cancels the timeout and calls clear().
C7_InjectedReportResolves ==
    [][(/\ lastReport' # lastReport
        /\ lastReport'.type = "context-injected"
        /\ lastReport'.ok
        /\ lastReport'.txId = activeSendTxId)
          => (activeSendTxId' = NoTx /\ timers' = <<>> /\ ClearIssued)]_vars

\* C8 as stated: when a report makes the coordinator clear the stack, the transaction's
\* context has been spliced into a request or its timeout is due.
C8_ClearedOnlyAfterDeliveryOrTimeout ==
    [][(ClearIssued /\ lastReport' # lastReport)
          => \/ Delivered(activeSendTxId)
             \/ /\ activeSendTxId \in DOMAIN pendingClearTimers
                /\ now >= timers[pendingClearTimers[activeSendTxId]].due]_vars

\* the page calls the patched window.fetch in this step
PageCalls == BagCardinality(fetches') > BagCardinality(fetches)

\* the calls of originalFetch made in this step
NewCalls == network' (-) network

\* C22: for every call of the patched fetch by the page, originalFetch is invoked exactly
\* once, in the step of the call, with the patched body exactly when the splice
\* succeeded; no other step, the patched request rejecting included, invokes it.
C22_OriginalFetchExactlyOnce ==
    [][/\ BagCardinality(NewCalls) = (IF PageCalls THEN 1 ELSE 0)
       /\ PageCalls =>
             \A call \in BagToSet(NewCalls) :
                 call.patched <=> /\ lastReport' # lastReport
                                  /\ lastReport'.type = "context-injected"
                                  /\ lastReport'.ok]_vars


(***************************************************************************)
(* Properties of the splice.                                               *)
(***************************************************************************)
\* C23: splicing never stamps twice.  A payload whose prompt, input or instructions string
\* already holds the marker line is left as it is, and for every payload the bridge can
\* parse, and every payload it has already patched, splicing a second time (with the same
\* or with another compiled context) changes nothing: this holds of the visible path, of
\* the hidden path, and of the two as the patched fetch combines them.
C23_SplicingIsIdempotent ==
    requestPayload # Undef =>
        \A c1 \in Contexts, c2 \in Contexts :
            LET visible == injectVisibleFallbackIntoPayload(requestPayload, c1).payload
                hidden == injectHiddenContextIntoPayload(requestPayload, c1).payload
                patched == patch(requestPayload, c1)
            IN  /\ injectVisibleFallbackIntoPayload(visible, c2).payload = visible
                /\ injectHiddenContextIntoPayload(hidden, c2).payload = hidden
                /\ patch(patched, c2) = patched
                /\ hasMarker(get(requestPayload, "prompt")) => visible = requestPayload
                /\ ~isString(get(requestPayload, "prompt")) /\ hasMarker(get(requestPayload, "input"))
                      => visible = requestPayload
                /\ hasMarker(get(requestPayload, "instructions")) => hidden = requestPayload

\* a payload the bridge has patched, with the context in it, is intercepted again
C23_Witness ==
    /\ requestPayload # Undef
    /\ requestPayload \notin Payloads
    /\ \E context \in Contexts : carries(requestPayload, context)
    /\ \E context \in Contexts : ENABLED Patch(context)

(***************************************************************************)
(* Properties of the bridge channel.                                       *)
(***************************************************************************)
\* what the bridge's listener and the coordinator's listener can change
Recipient(w) == <<w.pending, w.active, w.map, w.timers, w.timerSeq, w.counter, w.clears>>

\* C24: an event of the bridge channel whose source tag is not the fixed tag, or whose
\* direction is not the recipient's own, changes nothing in the recipient.  In every reachable
\* state the dispatch of such an event by another script changes nothing on either side;
\* the bridge's listener leaves pending slot, active txId, timers and stack as they
\* are for every event that is not to-page with the fixed tag, the coordinator's listener
\* for every event that is not to-content with the fixed tag: each side ignores what it
\* sends itself.
C24_ForeignEventsChangeNothing ==
    /\ \A detail \in ForeignDetails : dispatchEvent(World, detail) = World
    /\ \A detail \in Details :
            /\ (detail.source # PAGE_PATCH_SOURCE \/ detail.direction # "to-page")
                  => Recipient(bridgeListener(World, detail)) = Recipient(World)
            /\ (detail.source # PAGE_PATCH_SOURCE \/ detail.direction # "to-content")
                  => Recipient(contentListener(World, detail)) = Recipient(World)

\* a transaction is active, its context pending and its timeout armed, while another
\* script dispatches clear-context and prompt-request-finished under another tag
C24_Witness ==
    /\ pending # NoPending
    /\ activeSendTxId # NoTx
    /\ pendingClearTimers # <<>>
    /\ \A detail \in ForeignDetails : ENABLED PageDispatches(detail)

\* C25: the bridge never splices a context whose TTL has elapsed.  A page call made while
\* the slot holds a context past its expiresAt sends the request on unmodified, empties the
\* slot and reports context-expired with that context's txId; and whenever a call leaves
\* patched, the slot held a context that had not expired.
C25_ExpiredContextIsNeverSpliced ==
    [][/\ (PageCalls /\ pending # NoPending /\ now > pending.expiresAt)
            => /\ NewCalls = SetToBag({Call(FALSE, NoTx)})
               /\ pending' = NoPending
               /\ lastReport' # lastReport
               /\ lastReport'.type = "context-expired"
               /\ lastReport'.txId = pending.txId
       /\ (PageCalls /\ \E call \in BagToSet(NewCalls) : call.patched)
            => (pending # NoPending /\ now <= pending.expiresAt)]_vars

\* a prompt request with a user message went out unpatched after the slot had expired
C25_Witness ==
    /\ lastReport.type = "context-expired"
    /\ lastReport.txId = 1
    /\ pending = NoPending
    /\ now > CONTEXT_TTL_MS
    /\ BagIn(Fetch("original", TRUE, FALSE, Undefined), fetches)
    /\ network = SetToBag({Call(FALSE, NoTx)})

\* a transaction is begun in this step
Begun == activeSendTxId' # NoTx /\ activeSendTxId' # activeSendTxId

\* every txId in use anywhere has been handed out by the counter
Known(txId) == txId \in {NoTx, Undefined} \/ (1 <= txId /\ txId <= sendTxCounter)

\* C26: the txIds of successive transactions are strictly increasing.  The counter never
\* goes back; a transaction that is begun gets a txId above every txId handed out before,
\* and every txId held by the coordinator, the bridge's slot, a timeout, a fetch in flight
\* or a report is one handed out before, so no txId names two transactions; and a report
\* carrying a txId other than the active one leaves the active transaction, its timeout
\* and the stack alone.
C26_TxIdsStrictlyIncrease ==
    /\ [][/\ sendTxCounter' >= sendTxCounter
          /\ Begun => (activeSendTxId' = sendTxCounter + 1 /\ sendTxCounter' = activeSendTxId')
          /\ (/\ lastReport' # lastReport
              /\ lastReport'.txId # Undefined
              /\ activeSendTxId # NoTx
              /\ lastReport'.txId # activeSendTxId)
                => /\ activeSendTxId' = activeSendTxId
                   /\ activeSendTxId \in DOMAIN pendingClearTimers'
                   /\ pendingClearTimers'[activeSendTxId] \in DOMAIN timers'
                   /\ ~ClearIssued]_vars
    /\ [](/\ Known(activeSendTxId)
          /\ pending # NoPending => Known(pending.txId)
          /\ \A txId \in DOMAIN pendingClearTimers : Known(txId)
          /\ \A h \in DOMAIN timers : Known(timers[h].txId)
          /\ \A f \in BagToSet(fetches) : Known(f.txId)
          /\ Known(lastReport.txId))

\* the request of transaction 1 finishes while transaction 2 is active
C26_Witness ==
    /\ sendTxCounter = 2
    /\ activeSendTxId = 2
    /\ lastReport.type = "prompt-request-finished"
    /\ lastReport.txId = 1
    /\ lastReport.active = 2
    /\ 2 \in DOMAIN pendingClearTimers

\* C27: a send action begins a transaction only while a snippet is marked included.  Every
\* step that begins a transaction starts with an included snippet; and a send action with
\* none included returns null and leaves the coordinator where it was (idle if it was
\* idle), the counter, the bridge's slot and the timeouts as they were.
C27_SendNeedsAnIncludedSnippet ==
    [][/\ Begun => Len(getIncludedIds) > 0
       /\ (Len(getIncludedIds) = 0 /\ beginSelectedContextSendTransaction)
            => /\ sendResult'.returned = NoTx
               /\ UNCHANGED <<sendTxCounter, activeSendTxId, pending, timers, timerSeq,
                              pendingClearTimers, lastReport, storageQ>>]_vars

\* the stack holds a snippet the user has taken out, nothing is pending, and the last
\* send action returned null after an earlier one had begun transaction 1
C27_Witness ==
    /\ latestContextState.snippets # <<>>
    /\ includedIds = {}
    /\ sendTxCounter = 1
    /\ activeSendTxId = NoTx
    /\ sendResult.returned = NoTx
    /\ pending = NoPending
    /\ timers = <<>>

(***************************************************************************)
(* Properties of the compiled context.                                     *)
(***************************************************************************)
Header ==
    "### SELECTED CONTEXT (User-Collected)\n"
    \o "IMPORTANT: Do not let this context influence anything outside this specific message/prompt request.\n"
    \o "The following snippets were highlighted from earlier conversation:\n"

RECURSIVE Blocks(_, _)
\* the blocks of the texts from the k-th on, one blank line between two blocks
Blocks(texts, k) ==
    IF k > Len(texts) THEN ""
    ELSE "[Snippet " \o toString(k) \o "]\n" \o texts[k]
         \o (IF k < Len(texts) THEN "\n\n" ELSE "") \o Blocks(texts, k + 1)

\* the compiled text of a sequence of raw texts
Compiled(texts) == Header \o "\n" \o Blocks(texts, 1) \o "\n\nUser Question:"

TextsOf(snippets) == [k \in 1..Len(snippets) |-> snippets[k].text]

\* C30: compile is a function of the sequence of the snippets' texts: the three header
\* lines, then for the k-th snippet (from 1, in the order given) the line [Snippet k] and
\* its raw text, one blank line between blocks, then User Question:.  Every send that
\* begins a transaction hands the bridge that text of the included snippets in the
\* sidebar's order; and in every state the stack on display and its included part compile
\* to that text, the empty sequence to a text without [Snippet.
C30_CompileFollowsTheSequence ==
    /\ [][Begun => /\ pending' # NoPending
                   /\ pending'.context = Compiled(TextsOf(getIncludedIds))]_vars
    /\ [](/\ formatCompiledContext(latestContextState.snippets)
                = Compiled(TextsOf(latestContextState.snippets))
          /\ formatCompiledContext(getIncludedIds) = Compiled(TextsOf(getIncludedIds))
          /\ ~includes(formatCompiledContext(<<>>), "[Snippet")
          /\ formatCompiledContext(<<>>) = Header \o "\n\n\nUser Question:")

\* a send after the two snippets were put in the other order: the later one is Snippet 1
C30_Witness ==
    /\ pending # NoPending
    /\ Len(getIncludedIds) = MaxSelections
    /\ getIncludedIds[1].id > getIncludedIds[MaxSelections].id
    /\ pending.context = Compiled(TextsOf(getIncludedIds))

(***************************************************************************)
(* Properties of the DOM path.                                             *)
(***************************************************************************)
Marked(element) == includes(element.text, CONTEXT_MARKER)

\* C31: a send trigger that finds the marker in the editor leaves the editor as it is, no
\* trigger takes the number of marker lines in the editor beyond one, and a second trigger
\* right after one that inserted inserts nothing more
C31_MarkedEditorIsLeftAlone ==
    /\ [][SendTrigger =>
            /\ Marked(editor) => editor' = editor
            /\ ~Marked(editor) => occurrences(editor'.text, CONTEXT_MARKER) <= 1]_vars
    /\ [](\A first \in BOOLEAN, second \in BOOLEAN :
            LET context == getCompiledSelectedContext
                once == injectContextIntoEditorDOM(editor, context, first).element
                twice == injectContextIntoEditorDOM(once, context, second).element
            IN  Marked(once) => twice = once)

\* a trigger found the marker that an earlier trigger had put into the editor
C31_Witness ==
    /\ lastTrigger.marked
    /\ lastTrigger.returned
    /\ occurrences(editor.text, CONTEXT_MARKER) = 1
    /\ lastInsert = NoInsert
    /\ domClearTimers = 1

\* the strategies in their order, and whether each would succeed on the element
Strategies == <<"execCommand", "range", "textarea">>

Succeeds(name, element, inserted, selection) ==
    CASE name = "execCommand" -> isContentEditable(element) /\ inserted
      [] name = "range" -> isContentEditable(element) /\ selection # "null"
      [] name = "textarea" -> hasValue(element)

\* the elements insertText is handed: the editor the adapter found, and the same text in
\* a single-line input
InsertTargets ==
    {editor} \cup (IF editor.kind = "none" THEN {} ELSE {[editor EXCEPT !.kind = "input"]})

\* C32: insertText on no element returns false having tried nothing; on an element it
\* tries the editing command, then the range splice (both only if the element is content
\* editable), then the plain-input splice, up to the first that succeeds; it returns true
\* exactly if one succeeded, and input and change are dispatched, once, exactly then
C32_InsertStopsAtTheFirstSuccess ==
    /\ \A target \in InsertTargets, inserted \in BOOLEAN, selection \in Selections :
          LET done == injectText(target, "ctx", inserted, selection)
              first == IF isContentEditable(target) THEN 1 ELSE 3
              last == Len(done.tried)
          IN  /\ target.kind = "none" =>
                    ~done.returned /\ done.tried = <<>> /\ done.events = <<>>
              /\ target.kind # "none" =>
                    /\ last > 0
                    /\ done.tried = SubSeq(Strategies, first, first + last - 1)
                    /\ \A i \in 1..(last - 1) :
                          ~Succeeds(done.tried[i], target, inserted, selection)
                    /\ done.returned = Succeeds(done.tried[last], target, inserted, selection)
                    /\ ~done.returned => first + last - 1 = 3
              /\ done.events = (IF done.returned THEN <<"input", "change">> ELSE <<>>)
              /\ ~done.returned => done.element = target
              /\ done.returned => Len(done.element.text) = Len(target.text) + Len("ctx")
                                                             - (IF done.tried[last] = "range" THEN 0
                                                                ELSE target.end - target.start)
    /\ lastInsert.events = (IF lastInsert.returned THEN <<"input", "change">> ELSE <<>>)

\* the editing command inserted nothing and the range splice put the compiled context in
C32_Witness ==
    /\ lastInsert.returned
    /\ lastInsert.tried = <<"execCommand", "range">>
    /\ lastInsert.events = <<"input", "change">>
    /\ Marked(editor)

(***************************************************************************)
(* Properties of reports, slot and stack around a transaction.             *)
(***************************************************************************)
\* C33 as stated: a prompt-request-finished report without txId that arrives while a
\* transaction is active leaves the coordinator Pending with that transaction, calls no
\* clear() and leaves the bridge's slot as it is.
C33_UntaggedReportResolvesNothing ==
    [][(/\ lastReport' # lastReport
        /\ lastReport'.type = "prompt-request-finished"
        /\ lastReport'.txId = Undefined
        /\ activeSendTxId # NoTx)
          => (activeSendTxId' = activeSendTxId /\ ~ClearIssued /\ pending' = pending)]_vars

\* C34: a non-empty slot of the bridge holds the txId of the transaction the coordinator
\* is waiting for, and the slot is only ever filled by the begin of that transaction, with
\* the context compiled then
C34_SlotBelongsToTheActiveTransaction ==
    /\ [](pending # NoPending => (activeSendTxId # NoTx /\ pending.txId = activeSendTxId))
    /\ [][(pending' # pending /\ pending' # NoPending)
            => /\ activeSendTxId = NoTx
               /\ activeSendTxId' = sendTxCounter + 1
               /\ pending'.txId = activeSendTxId'
               /\ pending'.context = getCompiledSelectedContext]_vars

\* the slot holds the context of the second transaction, the first one resolved
C34_Witness ==
    /\ pending # NoPending
    /\ pending.txId = 2
    /\ activeSendTxId = 2
    /\ pending.context = getCompiledSelectedContext

\* the time the active transaction was begun at: its timeout was armed then
BegunAt == timers[pendingClearTimers[activeSendTxId]].due - FALLBACK_CLEAR_MS

\* the snippets of the persisted stack that were added after the active transaction began
AddedWhilePending ==
    LET stack == getStore(store[getActiveStorageKey]).snippets
    IN  {stack[i] : i \in {j \in DOMAIN stack : stack[j].timestamp > BegunAt}}

\* C35 as stated: the state that the clear() of a resolving or expiring transaction writes
\* still holds every snippet that was added after the transaction began.
C35_LaterSnippetsSurviveTheClear ==
    [][(/\ ClearIssued
        /\ activeSendTxId # NoTx
        /\ activeSendTxId \in DOMAIN pendingClearTimers)
          => LET written == storageQ'[Len(storageQ')].value.snippets
             IN  \A snippet \in AddedWhilePending :
                    \E i \in DOMAIN written : written[i] = snippet]_vars

\* C36 as stated: the context handed to the bridge when a transaction begins is compiled
\* from the included snippets of the stack persisted under the scope key active at that
\* moment, in stack order.
C36_CompiledFromTheActiveScope ==
    [][(pending' # pending /\ pending' # NoPending)
          => LET Included(snippet) == snippet.id \in includedIds
                 persisted == getStore(store[getActiveStorageKey]).snippets
             IN  pending'.context = formatCompiledContext(SelectSeq(persisted, Included))]_vars

\* the key the clear() issued in this step will be written under
ClearedKey == storageQ'[Len(storageQ')].key

\* C37 as stated: the clear() of a resolving or expiring transaction is written under the
\* scope key that was current when the transaction began, also when the scope key has
\* changed since.
C37_ClearGoesToTheScopeOfTheBegin ==
    [][(ClearIssued /\ activeSendTxId # NoTx) => ClearedKey = sendResult.key]_vars

\* the stack persisted under the active scope key is empty
StackCleared == getStore(store[getActiveStorageKey]).snippets = <<>>

\* C38 as stated: a send trigger on the DOM path that found an included snippet and an
\* editor (injectContextIntoEditorDOM returned true) is eventually followed by the stack
\* being cleared.
C38_TriggerLeadsToClear == lastTrigger.returned ~> StackCleared

\* the snippets on display that the user has toggled to excluded
Excluded == idsOf(latestContextState.snippets) \ includedIds

\* C39 as stated: a step that is no click on a toggle button (the result of an add, a
\* remove, a reorder or a clear reaches the panel, or a store-change notification does)
\* leaves every excluded snippet that is still in the stack excluded.
C39_ExcludedStaysExcluded ==
    [][includedIds' # includedIds /\ latestContextState' # latestContextState
          => \A id \in Excluded :
                id \in idsOf(latestContextState'.snippets) => id \notin includedIds']_vars
====
